---- MODULE Spec2Model ----
(***************************************************************************)
(* Model of the barbershop WhatsApp bot: the webhook receiver, the         *)
(* per-number session state, the error/escalation flow with its in-memory  *)
(* ERROR_CONTEXT, the chat/message store and the delay-policy engine.      *)
(*                                                                         *)
(* Text is modelled as a sequence of tokens.  What a customer types is a   *)
(* sequence of one-character tokens, so that strip(), lower() and the      *)
(* substring tests of the code are computed; a fixed message of the bot is *)
(* a sequence of a few long tokens, and concatenation is \o.               *)
(***************************************************************************)
EXTENDS Integers, Sequences, FiniteSets, TLC

----------------------------------------------------------------------------
(* Python values *)

\* Optional[T]: None is the empty sequence, a value v is <<v>>.
None == << >>

Some(v) == <<v>>

\* A dict is a function whose domain is the set of its keys.
EmptyDict == [k \in {} |-> TRUE]

DictGet(d, key, default) == IF key \in DOMAIN d THEN d[key] ELSE default

DictPut(d, key, v) == [k \in (DOMAIN d) \cup {key} |-> IF k = key THEN v ELSE d[k]]

----------------------------------------------------------------------------
(* str operations, on token sequences *)

Espacios == {" ", "\n", "\t"}

RECURSIVE LStrip(_)
LStrip(s) == IF s # << >> /\ Head(s) \in Espacios THEN LStrip(Tail(s)) ELSE s

RECURSIVE RStrip(_)
RStrip(s) == IF s # << >> /\ s[Len(s)] \in Espacios THEN RStrip(SubSeq(s, 1, Len(s) - 1)) ELSE s

\* str.strip()
Strip(s) == RStrip(LStrip(s))

MAYUSCULAS == <<"A", "B", "C", "D", "E", "F", "G", "H", "I", "J", "K", "L", "M", "N", "O", "P", "Q", "R", "S", "T", "U", "V", "W", "X", "Y", "Z">>

MINUSCULAS == <<"a", "b", "c", "d", "e", "f", "g", "h", "i", "j", "k", "l", "m", "n", "o", "p", "q", "r", "s", "t", "u", "v", "w", "x", "y", "z">>

MINUSCULA_DE == [c \in {MAYUSCULAS[i] : i \in 1..Len(MAYUSCULAS)} |-> MINUSCULAS[CHOOSE i \in 1..Len(MAYUSCULAS) : MAYUSCULAS[i] = c]]

LowerChar(c) == IF c \in DOMAIN MINUSCULA_DE THEN MINUSCULA_DE[c] ELSE c

\* str.lower()
Lower(s) == [i \in 1..Len(s) |-> LowerChar(s[i])]

\* sub in s
Contains(s, sub) == \E i \in 0..(Len(s) - Len(sub)) : SubSeq(s, i + 1, i + Len(sub)) = sub

\* s.startswith(pre)
StartsWith(s, pre) == Len(pre) <= Len(s) /\ SubSeq(s, 1, Len(pre)) = pre

\* any(k in s for k in claves)
ContainsAny(s, claves) == \E k \in claves : Contains(s, k)

\* the characters of s that are not in quitar: re.sub('[...]', '', s)
RECURSIVE Quitar(_, _)
Quitar(s, quitar) == IF s = << >> THEN << >> ELSE (IF Head(s) \in quitar THEN << >> ELSE <<Head(s)>>) \o Quitar(Tail(s), quitar)

----------------------------------------------------------------------------
(* Util/policy_engine.py *)

evaluar_politica_demora_lt(minutos) ==
    IF minutos = None THEN "demora_media"
    ELSE IF minutos[1] < 5 THEN "demora_leve"
    ELSE IF minutos[1] < 10 THEN "demora_media"
    ELSE IF minutos[1] < 15 THEN "demora_grave"
    ELSE "turno_perdido"

evaluar_politica_demora(minutos) ==
    IF minutos = None THEN "demora_media"
    ELSE IF minutos[1] <= 5 THEN "demora_leve"
    ELSE IF minutos[1] <= 10 THEN "demora_media"
    ELSE IF minutos[1] <= 15 THEN "demora_grave"
    ELSE "turno_perdido"

\* datos is a dict; datos.get("minutos_demora") is None when the key is absent.
aplicar_politica(intencion, datos) ==
    IF intencion = "aviso_demora"
    THEN [estado |-> evaluar_politica_demora(DictGet(datos, "minutos_demora", None)),
          metadata |-> [minutos_demora |-> DictGet(datos, "minutos_demora", None),
                        hora_turno |-> DictGet(datos, "hora_turno", None),
                        hora_llegada |-> DictGet(datos, "hora_llegada", None)]]
    ELSE [estado |-> "neutro", metadata |-> datos]

MSG_DEMORA_LEVE == <<"Bro, no pasa nada. Ya le avisamos al barbero con el cual agendaste tu ", "turno", ".">>

MSG_DEMORA_GRAVE == <<"Bro, cuando el atraso es así es un poco complicado porque tenemos otros turnos agendados detrás. Si podés llegar lo antes posible, genial. Si no, mejor cancelá ese ", "turno", " y agendate uno nuevo en el primer horario disponible.">>

MSG_TURNO_PERDIDO == <<"Bro, cuando el atraso es tan largo es muy difícil poder atenderte bien porque tenemos otros turnos agendados detrás. En este caso, lo mejor es que canceles ese ", "turno", " y te agendes uno nuevo en el primer horario disponible, así podemos darte el tiempo que necesitás y no atrasamos al resto.">>

mensajes_demora == [demora_leve |-> MSG_DEMORA_LEVE, demora_media |-> MSG_DEMORA_LEVE, demora_grave |-> MSG_DEMORA_GRAVE, turno_perdido |-> MSG_TURNO_PERDIDO]

obtener_mensaje_segun_estado_siempre_link(estado, contexto) ==
    IF estado \in DOMAIN mensajes_demora
    THEN LET link_agenda == DictGet(contexto, "link_agenda", << >>)
             mensaje == mensajes_demora[estado]
         IN  Some(IF link_agenda # << >> /\ ~Contains(mensaje, link_agenda) THEN mensaje \o <<"\n\n">> \o link_agenda ELSE mensaje)
    ELSE None

obtener_mensaje_segun_estado(estado, contexto) ==
    IF estado \in DOMAIN mensajes_demora
    THEN LET mensaje == mensajes_demora[estado]
             link_agenda == DictGet(contexto, "link_agenda", << >>)
         IN  IF estado \in {"demora_grave", "turno_perdido"} /\ link_agenda # << >> /\ ~Contains(mensaje, link_agenda)
             THEN Some(mensaje \o <<"\n\n">> \o link_agenda)
             ELSE Some(mensaje)
    ELSE None

----------------------------------------------------------------------------
(* Phone numbers and configuration *)

\* whatsapp_api.normalizar_numero_telefono
normalizar_numero_telefono(numero) ==
    LET limpio == Quitar(numero, {" ", "-", "(", ")"})
    IN  IF StartsWith(limpio, <<"+">>) THEN limpio ELSE <<"+">> \o limpio

NUM_POR_DEFECTO == <<"59891453663">>

NO_CONFIGURADO == <<"<NUMERO>">>

\* The customers that write to the bot, and a number registered as repartidor.
Cliente1 == <<"59899000001">>

Cliente2 == <<"59899000002">>

Repartidor1 == <<"59899000009">>

Repartidores == {Repartidor1}

Numeros == {Cliente1, Cliente2, Repartidor1, NUM_POR_DEFECTO}

DESCONOCIDO == <<"desconocido">>

ERROR_WEBHOOK == <<"Error al procesar webhook">>

----------------------------------------------------------------------------
(* State *)

VARIABLES
    NUM_DESARROLLADOR,      \* error_flow.NUM_DESARROLLADOR (environment, read at import)
    NUM_RESPONSABLE,        \* error_flow.NUM_RESPONSABLE
    ERROR_CONTEXT,          \* error_flow.ERROR_CONTEXT: the entries in insertion order; error_id is the index
    ULTIMO_CLIENTE_CONTEXT, \* webhook_server.ULTIMO_CLIENTE_CONTEXT
    ESTADOS,                \* Util.estado: per-number session state
    clientes,               \* table cliente: the phones, id_cliente is the index
    chats,                  \* table chat: rows in insertion order
    mensajes,               \* table mensaje: rows in insertion order
    sesiones_abiertas,      \* DB sessions opened and not closed
    reloj,                  \* datetime.now()
    ultimo_wamid,           \* last message id handed out by the WhatsApp API
    recibidos,              \* number of POST /webhook handled
    fallas,                 \* number of requests in which a step raised
    ult,                    \* what the last request did
    pol,                    \* the policy engine's evaluation (specification SpecPolitica)
    consulta                \* a function called on its own, outside a request: its arguments and its result

vars == <<NUM_DESARROLLADOR, NUM_RESPONSABLE, ERROR_CONTEXT, ULTIMO_CLIENTE_CONTEXT, ESTADOS, clientes, chats, mensajes, sesiones_abiertas, reloj, ultimo_wamid, recibidos, fallas, ult, pol, consulta>>

varsSinConsulta == <<NUM_DESARROLLADOR, NUM_RESPONSABLE, ERROR_CONTEXT, ULTIMO_CLIENTE_CONTEXT, ESTADOS, clientes, chats, mensajes, sesiones_abiertas, reloj, ultimo_wamid, recibidos, fallas, ult, pol>>

varsWebhook == <<NUM_DESARROLLADOR, NUM_RESPONSABLE, ERROR_CONTEXT, ULTIMO_CLIENTE_CONTEXT, ESTADOS, clientes, chats, mensajes, sesiones_abiertas, reloj, ultimo_wamid, recibidos, fallas, ult, consulta>>

----------------------------------------------------------------------------
(* whatsapp_api.enviar_mensaje_whatsapp *)

\* What one call can do: "ok" (status 200, a message id in the answer), "sin_id"
\* (status 200, no "messages" in the answer), "fail" (another status, or an answer
\* that is not JSON), "raise" (requests.post raises: it is outside the try).
ResultadosEnvio == {"ok", "sin_id", "fail", "raise"}

\* The state a handler works on: the globals and tables; out = the sends made so far,
\* registro = the sends and the rows logged so far, in order; pasos = the flow steps
\* written so far; exc = an exception is propagating; fin = handle_text has returned;
\* ret = the value of the last call; ng, ns = calls of the generator and sends made
\* by the request so far; cd = conversation_data of the Chat the request builds;
\* db_session = receive holds a session of the database.
Mundo(ec, uc, est, cd, cl, ch, ms, ses, rel, wam) ==
    [ec |-> ec, uc |-> uc, est |-> est, cd |-> cd, cl |-> cl, ch |-> ch, ms |-> ms, ses |-> ses, rel |-> rel, wam |-> wam,
     out |-> << >>, registro |-> << >>, pasos |-> << >>, exc |-> FALSE, fin |-> FALSE, ret |-> None, ng |-> 0, ns |-> 0,
     db_session |-> FALSE, gen_raise |-> FALSE, excepto |-> FALSE, relevo |-> "no", n_relevo |-> 0, ht |-> FALSE,
     cierres |-> << >>]

enviar_mensaje_whatsapp(w, numero, mensaje, o) ==
    LET llamada == [to |-> numero, body |-> mensaje, res |-> o, message_id |-> IF o = "ok" THEN Some(w.wam + 1) ELSE None]
        w1 == [w EXCEPT !.out = Append(@, llamada), !.registro = Append(@, [op |-> "enviar", a |-> numero, body |-> mensaje])]
    IN  CASE o = "raise" -> [w1 EXCEPT !.exc = TRUE, !.ret = None]
          [] o = "ok" -> [w1 EXCEPT !.wam = @ + 1, !.ret = [success |-> TRUE, message_id |-> Some(w.wam + 1)]]
          [] o = "sin_id" -> [w1 EXCEPT !.ret = [success |-> TRUE, message_id |-> None]]
          [] OTHER -> [w1 EXCEPT !.ret = [success |-> FALSE, message_id |-> None]]


----------------------------------------------------------------------------
(* Util/error_flow.py *)

MSG_ESPERA == <<"Bro ando atendiendo un cliente enseguida te respondo">>

MensajeDesarrollador(mensaje_cliente, numero_cliente, contexto) ==
    <<"*Error técnico en bot*\n\nCliente: ">> \o numero_cliente \o <<"\nMensaje original: ">> \o mensaje_cliente
        \o <<"\nContexto: ", contexto, "\nError: ", "<traceback>">>

MensajeResponsable(mensaje_cliente, numero_cliente) ==
    <<"Error atendiendo a un cliente\n\nCliente: ">> \o numero_cliente \o <<"\nMensaje: ">> \o mensaje_cliente
        \o <<"\n\nRespondé a este mensaje para contestarle al cliente.">>

notify_developer(w, mensaje_cliente, numero_cliente, contexto, o) ==
    IF NUM_DESARROLLADOR = NO_CONFIGURADO THEN w
    ELSE enviar_mensaje_whatsapp(w, NUM_DESARROLLADOR, MensajeDesarrollador(mensaje_cliente, numero_cliente, contexto), o)

\* ret is the message id of the notice, or None
notify_responsable(w, mensaje_cliente, numero_cliente, o) ==
    IF NUM_RESPONSABLE = NO_CONFIGURADO THEN [w EXCEPT !.ret = None]
    ELSE LET w1 == enviar_mensaje_whatsapp(w, NUM_RESPONSABLE, MensajeResponsable(mensaje_cliente, numero_cliente), o)
         IN  IF w1.exc THEN w1
             ELSE [w1 EXCEPT !.ret = IF w1.ret.success THEN w1.ret.message_id ELSE None]

respond_to_client(w, numero_cliente, o) == enviar_mensaje_whatsapp(w, numero_cliente, MSG_ESPERA, o)

register_error_context_sin_cliente(w, numero_cliente, numero_responsable, message_id_responsable, mensaje_cliente) ==
    [w EXCEPT !.rel = @ + 1,
              !.ec = Append(@, [numero_cliente |-> numero_responsable, numero_responsable |-> numero_responsable,
                                mensaje_cliente |-> mensaje_cliente, message_id_responsable |-> message_id_responsable,
                                timestamp |-> w.rel + 1, resuelto |-> FALSE])]

\* uuid4 gives a key no entry has: the entry is appended and its index is its error_id.
\* datetime.now() is read once per registration, and registrations are made by
\* requests handled one after the other: each timestamp is later than the last.
register_error_context(w, numero_cliente, numero_responsable, message_id_responsable, mensaje_cliente) ==
    [w EXCEPT !.rel = @ + 1,
              !.ec = Append(@, [numero_cliente |-> numero_cliente, numero_responsable |-> numero_responsable,
                                mensaje_cliente |-> mensaje_cliente, message_id_responsable |-> message_id_responsable,
                                timestamp |-> w.rel + 1, resuelto |-> FALSE])]

\* esc gives what each of the three sends does
handle_critical_exception(w, mensaje_cliente, numero_cliente, contexto, esc) ==
    LET w1 == notify_developer(w, mensaje_cliente, numero_cliente, contexto, esc.dev)
        w2 == notify_responsable(w1, mensaje_cliente, numero_cliente, esc.resp)
        message_id_responsable == w2.ret
        w3 == respond_to_client(w2, numero_cliente, esc.cli)
    IN  IF w1.exc THEN w1
        ELSE IF w2.exc THEN w2
        ELSE IF w3.exc THEN w3
        ELSE IF message_id_responsable # None
             THEN register_error_context(w3, numero_cliente, NUM_RESPONSABLE, message_id_responsable[1], mensaje_cliente)
             ELSE w3

\* the error_id of the first unresolved entry with that message id, or 0
get_error_by_message_id(ec, message_id) ==
    LET hits == {i \in 1..Len(ec) : ec[i].message_id_responsable = message_id /\ ~ec[i].resuelto}
    IN  IF hits = {} THEN 0 ELSE CHOOSE i \in hits : \A j \in hits : i <= j

\* sort(key=timestamp, reverse=True) is stable: among the unresolved entries of the
\* responsable with the greatest timestamp, the first inserted comes first.
\* the oldest unresolved entry of the responsable instead of the newest
get_last_error_by_responsable_mas_antiguo(ec, numero_responsable) ==
    LET activos == {i \in 1..Len(ec) : ec[i].numero_responsable = numero_responsable /\ ~ec[i].resuelto}
    IN  IF activos = {} THEN 0 ELSE CHOOSE i \in activos : \A j \in activos : i <= j

get_last_error_by_responsable(ec, numero_responsable) ==
    LET activos == {i \in 1..Len(ec) : ec[i].numero_responsable = numero_responsable /\ ~ec[i].resuelto}
        ultimos == {i \in activos : \A j \in activos : ec[j].timestamp <= ec[i].timestamp}
    IN  IF activos = {} THEN 0 ELSE CHOOSE i \in ultimos : \A j \in ultimos : i <= j

\* a mark_error_resolved that marks nothing
mark_error_resolved_nada(w, error_id) == w

mark_error_resolved(w, error_id) ==
    IF error_id \in 1..Len(w.ec) THEN [w EXCEPT !.ec[error_id].resuelto = TRUE] ELSE w

BuscarError(ec, numero_responsable, replied_message_id) ==
    IF replied_message_id # None
    THEN get_error_by_message_id(ec, replied_message_id[1])
    ELSE get_last_error_by_responsable(ec, numero_responsable)

handle_responsable_reply_primer_error(w, numero_responsable, mensaje_responsable, replied_message_id, o) ==
    LET error_id == BuscarError(w.ec, numero_responsable, replied_message_id)
        w1 == enviar_mensaje_whatsapp(w, w.ec[1].numero_cliente, mensaje_responsable, o)
    IN  IF error_id = 0 THEN [w EXCEPT !.ret = FALSE]
        ELSE IF w1.exc THEN w1
        ELSE IF w1.ret.success THEN [mark_error_resolved(w1, error_id) EXCEPT !.ret = TRUE]
        ELSE [w1 EXCEPT !.ret = FALSE]

\* the error is marked resolved whatever the send reports
handle_responsable_reply_marca_siempre(w, numero_responsable, mensaje_responsable, replied_message_id, o) ==
    LET error_id == BuscarError(w.ec, numero_responsable, replied_message_id)
        numero_cliente == w.ec[error_id].numero_cliente
        w1 == enviar_mensaje_whatsapp(w, numero_cliente, mensaje_responsable, o)
    IN  IF error_id = 0 THEN [w EXCEPT !.ret = FALSE]
        ELSE IF numero_cliente = << >> THEN [w EXCEPT !.ret = FALSE]
        ELSE IF w1.exc THEN w1
        ELSE [mark_error_resolved(w1, error_id) EXCEPT !.ret = w1.ret.success]

\* ret is the bool returned
handle_responsable_reply(w, numero_responsable, mensaje_responsable, replied_message_id, o) ==
    LET error_id == BuscarError(w.ec, numero_responsable, replied_message_id)
        numero_cliente == w.ec[error_id].numero_cliente
        w1 == enviar_mensaje_whatsapp(w, numero_cliente, mensaje_responsable, o)
    IN  IF error_id = 0 THEN [w EXCEPT !.ret = FALSE]
        ELSE IF numero_cliente = << >> THEN [w EXCEPT !.ret = FALSE]
        ELSE IF w1.exc THEN w1
        ELSE IF w1.ret.success THEN [mark_error_resolved(w1, error_id) EXCEPT !.ret = TRUE]
        ELSE [w1 EXCEPT !.ret = FALSE]

is_responsable(numero) ==
    IF NUM_RESPONSABLE = NO_CONFIGURADO THEN FALSE
    ELSE LET numero_normalizado == normalizar_numero_telefono(numero)
             responsable_normalizado == normalizar_numero_telefono(NUM_RESPONSABLE)
         IN  \/ numero_normalizado = responsable_normalizado
             \/ numero = NUM_RESPONSABLE
             \/ numero_normalizado = NUM_RESPONSABLE
             \/ numero = responsable_normalizado


----------------------------------------------------------------------------
(* Texts: what the customers and the responsable type, and the keyword tables *)

COMANDOS_CANCELAR == {
    <<"c", "a", "n", "c", "e", "l", "a", "r">>,
    <<"s", "a", "l", "i", "r">>,
    <<"c", "a", "n", "c", "e", "l">>}

SALUDOS == {
    <<"h", "o", "l", "a">>,
    <<"h", "o", "l", "i">>,
    <<"h", "o", "l", "i", "s">>,
    <<"b", "u", "e", "n", "a", "s">>,
    <<"b", "u", "e", "n", "o", "s", " ", "d", "í", "a", "s">>,
    <<"b", "u", "e", "n", "o", "s", " ", "d", "i", "a", "s">>,
    <<"b", "u", "e", "n", " ", "d", "í", "a">>,
    <<"b", "u", "e", "n", " ", "d", "i", "a">>,
    <<"b", "u", "e", "n", "a", "s", " ", "t", "a", "r", "d", "e", "s">>,
    <<"b", "u", "e", "n", "a", "s", " ", "n", "o", "c", "h", "e", "s">>,
    <<"q", "u", "e", " ", "t", "a", "l">>,
    <<"q", "u", "é", " ", "t", "a", "l">>,
    <<"q", "u", "e", " ", "o", "n", "d", "a">>,
    <<"q", "u", "é", " ", "o", "n", "d", "a">>,
    <<"c", "o", "m", "o", " ", "e", "s", "t", "a", "s">>,
    <<"c", "ó", "m", "o", " ", "e", "s", "t", "á", "s">>,
    <<"t", "o", "d", "o", " ", "b", "i", "e", "n">>,
    <<"q", "u", "é", " ", "h", "a", "y">>,
    <<"q", "u", "e", " ", "h", "a", "y">>}

POSITIVAS == {
    <<"s", "i">>,
    <<"s", "í">>,
    <<"d", "a", "l", "e">>,
    <<"o", "k">>,
    <<"p", "e", "r", "f", "e", "c", "t", "o">>,
    <<"b", "u", "e", "n", "o">>,
    <<"b", "i", "e", "n">>,
    <<"c", "l", "a", "r", "o">>,
    <<"p", "o", "r", " ", "s", "u", "p", "u", "e", "s", "t", "o">>,
    <<"d", "e", " ", "a", "c", "u", "e", "r", "d", "o">>,
    <<"v", "a", "m", "o", "s">>,
    <<"j", "o", "y", "a">>,
    <<"g", "e", "n", "i", "a", "l">>,
    <<"b", "u", "e", "n", "í", "s", "i", "m", "o">>,
    <<"b", "u", "e", "n", "i", "s", "i", "m", "o">>}

FRASES_LINK == {
    <<"p", "a", "s", "a", "m", "e">>,
    <<"p", "á", "s", "a", "m", "e">>,
    <<"p", "a", "s", "a", "m", "e", " ", "e", "l", " ", "l", "i", "n", "k">>,
    <<"p", "á", "s", "a", "m", "e", " ", "e", "l", " ", "l", "i", "n", "k">>,
    <<"d", "a", "l", "e", " ", "p", "a", "s", "a", "m", "e">>,
    <<"d", "a", "l", "e", " ", "p", "á", "s", "a", "m", "e">>,
    <<"p", "á", "s", "a", "m", "e", " ", "l", "a", " ", "a", "g", "e", "n", "d", "a">>,
    <<"p", "a", "s", "a", "m", "e", " ", "l", "a", " ", "a", "g", "e", "n", "d", "a">>,
    <<"p", "á", "s", "a", "m", "e", " ", "l", "i", "n", "k">>,
    <<"p", "a", "s", "a", "m", "e", " ", "l", "i", "n", "k">>,
    <<"m", "a", "n", "d", "a", "m", "e">>,
    <<"m", "á", "n", "d", "a", "m", "e">>,
    <<"m", "a", "n", "d", "a", "m", "e", " ", "e", "l", " ", "l", "i", "n", "k">>,
    <<"m", "á", "n", "d", "a", "m", "e", " ", "e", "l", " ", "l", "i", "n", "k">>,
    <<"d", "a", "m", "e">>,
    <<"d", "a", "m", "e", " ", "e", "l", " ", "l", "i", "n", "k">>,
    <<"d", "a", "m", "e", " ", "l", "i", "n", "k">>,
    <<"d", "a", "m", "e", " ", "l", "a", " ", "a", "g", "e", "n", "d", "a">>,
    <<"e", "n", "v", "í", "a", "m", "e">>,
    <<"e", "n", "v", "í", "a", "m", "e", " ", "e", "l", " ", "l", "i", "n", "k">>,
    <<"e", "n", "v", "í", "a", "m", "e", " ", "l", "i", "n", "k">>,
    <<"e", "n", "v", "í", "a", "m", "e", " ", "l", "a", " ", "a", "g", "e", "n", "d", "a">>,
    <<"q", "u", "i", "e", "r", "o", " ", "a", "g", "e", "n", "d", "a", "r">>,
    <<"q", "u", "i", "e", "r", "o", " ", "r", "e", "s", "e", "r", "v", "a", "r">>,
    <<"q", "u", "i", "e", "r", "o", " ", "t", "u", "r", "n", "o">>,
    <<"n", "e", "c", "e", "s", "i", "t", "o", " ", "a", "g", "e", "n", "d", "a", "r">>,
    <<"n", "e", "c", "e", "s", "i", "t", "o", " ", "r", "e", "s", "e", "r", "v", "a", "r">>,
    <<"n", "e", "c", "e", "s", "i", "t", "o", " ", "t", "u", "r", "n", "o">>,
    <<"l", "i", "n", "k">>,
    <<"l", "a", " ", "a", "g", "e", "n", "d", "a">>,
    <<"e", "l", " ", "l", "i", "n", "k">>,
    <<"l", "i", "n", "k", " ", "d", "e", " ", "a", "g", "e", "n", "d", "a">>}

CONFIRMACIONES == {
    <<"y", "a", " ", "a", "g", "e", "n", "d", "e">>,
    <<"y", "a", " ", "a", "g", "e", "n", "d", "é">>,
    <<"r", "e", "s", "e", "r", "v", "e">>,
    <<"r", "e", "s", "e", "r", "v", "é">>,
    <<"y", "a", " ", "r", "e", "s", "e", "r", "v", "é">>,
    <<"y", "a", " ", "r", "e", "s", "e", "r", "v", "e">>,
    <<"l", "i", "s", "t", "o">>,
    <<"l", "i", "s", "t", "o", " ", "a", "g", "e", "n", "d", "e">>,
    <<"a", "g", "e", "n", "d", "e">>,
    <<"a", "g", "e", "n", "d", "é">>,
    <<"c", "o", "n", "f", "i", "r", "m", "a", "d", "o">>,
    <<"y", "a", " ", "e", "s", "t", "á">>}

T_HOLA == <<"h", "o", "l", "a">>

T_SI == <<"s", "i">>

T_LINK == <<"l", "i", "n", "k">>

T_LISTO == <<"l", "i", "s", "t", "o">>

T_SALIR == <<" ", "S", "a", "l", "i", "r", " ">>

T_CANCELAR == <<"c", "a", "n", "c", "e", "l", "a", "r">>

T_CANCEL == <<"C", "A", "N", "C", "E", "L">>

T_HOLA_DALE == <<"H", "o", "l", "a", ",", " ", "d", "a", "l", "e">>

T_NO_SE == <<"n", "o", " ", "s", "e">>

T_PRECIO == <<"p", "r", "e", "c", "i", "o">>

T_HUMANO == <<"h", "u", "m", "a", "n", "o">>

T_AYUDA == <<"a", "y", "u", "d", "a">>

T_RESPONDER == <<"#", "R", "e", "s", "p", "o", "n", "d", "e", "r", " ", "o", "k">>

T_YA_VOY == <<"Y", "a", " ", "v", "o", "y">>

AYUDA == <<"a", "y", "u", "d", "a">>

PREFIJO_RESPONDER == <<"#", "R", "e", "s", "p", "o", "n", "d", "e", "r">>

CALIFICAR_ == <<"c", "a", "l", "i", "f", "i", "c", "a", "r", "_">>

PEDIDO_ == <<"p", "e", "d", "i", "d", "o", "_">>

ENTREGADO_ == <<"e", "n", "t", "r", "e", "g", "a", "d", "o", "_">>

BUENAS == <<"b", "u", "e", "n", "a", "s">>

TODO_BIEN == <<"t", "o", "d", "o", " ", "b", "i", "e", "n">>

TURNO == <<"t", "u", "r", "n", "o">>

AGENDA == <<"a", "g", "e", "n", "d", "a">>

RESERVA == <<"r", "e", "s", "e", "r", "v", "a">>

HUMANO == <<"h", "u", "m", "a", "n", "o">>

PRECIO == <<"p", "r", "e", "c", "i", "o">>


PUNTUACION == {".", ",", ";", ":", "!", "?", "¿", "¡"}

----------------------------------------------------------------------------
(* Util/estado.py: the per-number session state *)

EstadoInicial == [waiting_for |-> None, context_data |-> EmptyDict]

reset_estado(est, numero) == [est EXCEPT ![numero] = EstadoInicial]

clear_waiting_for(est, numero) == [est EXCEPT ![numero].waiting_for = None]

get_waiting_for(est, numero) == est[numero].waiting_for

----------------------------------------------------------------------------
(* Services: the tables *)

IdChat(telefono) == <<"chat_">> \o telefono

\* ClienteService.obtener_o_crear_cliente("", "", numero); ret is id_cliente
obtener_o_crear_cliente(w, telefono, o) ==
    IF o = "raise" THEN [w EXCEPT !.exc = TRUE]
    ELSE IF \E i \in 1..Len(w.cl) : w.cl[i] = telefono
         THEN [w EXCEPT !.ret = CHOOSE i \in 1..Len(w.cl) : w.cl[i] = telefono]
         ELSE [w EXCEPT !.cl = Append(@, telefono), !.ret = Len(w.cl) + 1]

obtener_chat_por_id_chat(ch, id_chat) ==
    IF \E i \in 1..Len(ch) : ch[i].id_chat = id_chat
    THEN Some(CHOOSE i \in 1..Len(ch) : ch[i].id_chat = id_chat /\ \A j \in 1..Len(ch) : ch[j].id_chat = id_chat => i <= j)
    ELSE None

crear_chat(w, id_cliente, id_chat) ==
    [w EXCEPT !.ch = Append(@, [id_chat |-> id_chat, id_cliente |-> id_cliente]), !.ret = Len(w.ch) + 1]

obtener_o_crear_chat_siempre_crea(w, id_cliente, telefono, o) ==
    IF o = "raise" THEN [w EXCEPT !.exc = TRUE] ELSE crear_chat(w, id_cliente, IdChat(telefono))

\* ret is the index of the row returned
obtener_o_crear_chat(w, id_cliente, telefono, o) ==
    LET id_chat == IdChat(telefono)
        chat == obtener_chat_por_id_chat(w.ch, id_chat)
    IN  IF o = "raise" THEN [w EXCEPT !.exc = TRUE]
        ELSE IF chat = None THEN crear_chat(w, id_cliente, id_chat)
        ELSE [w EXCEPT !.ret = chat[1]]

\* a registrar_mensaje that keeps only the row it writes
registrar_mensaje_reemplaza(w, id_chat, contenido, es_cliente, o) ==
    IF o = "raise" THEN [w EXCEPT !.exc = TRUE]
    ELSE [w EXCEPT !.ms = <<[id_chat |-> id_chat, contenido |-> contenido, es_cliente |-> es_cliente]>>,
                   !.registro = Append(@, [op |-> "registrar", a |-> id_chat, body |-> contenido, es_cliente |-> es_cliente])]

registrar_mensaje(w, id_chat, contenido, es_cliente, o) ==
    IF o = "raise" THEN [w EXCEPT !.exc = TRUE]
    ELSE [w EXCEPT !.ms = Append(@, [id_chat |-> id_chat, contenido |-> contenido, es_cliente |-> es_cliente]),
                   !.registro = Append(@, [op |-> "registrar", a |-> id_chat, body |-> contenido, es_cliente |-> es_cliente])]

\* .filter(Mensaje.id_chat == id_chat): the rows of the chat, in insertion order
RECURSIVE FiltrarChat(_, _)
FiltrarChat(ms, id_chat) ==
    IF ms = << >> THEN << >>
    ELSE IF Head(ms).id_chat = id_chat THEN <<Head(ms)>> \o FiltrarChat(Tail(ms), id_chat)
    ELSE FiltrarChat(Tail(ms), id_chat)

\* reversed(...), and order_by(fecha_envio.desc()) of rows kept in fecha_envio order
Invertir(filas) == [i \in 1..Len(filas) |-> filas[Len(filas) + 1 - i]]

\* .limit(limite)
Limitar(filas, limite) == SubSeq(filas, 1, IF Len(filas) < limite THEN Len(filas) ELSE limite)

Formato(msg) == [role |-> IF msg.es_cliente THEN "user" ELSE "bot", content |-> msg.contenido]

obtener_ultimos_mensajes(ms, id_chat, limite) ==
    [i \in 1..Len(Limitar(Invertir(FiltrarChat(ms, id_chat)), limite)) |->
        Formato(Invertir(Limitar(Invertir(FiltrarChat(ms, id_chat)), limite))[i])]

----------------------------------------------------------------------------
(* Models/chat.py *)

LINK_RESERVA == <<"ejemploLinkReserva.com">>

LINK_MAPS == <<"https://maps.app.goo.gl/uaJPmJrxUJr5wZE87">>

numero_derivacion == <<"+", "59891453663">>

NUMERO_NOTIFICACION == <<"+", "59891453663">>

MSG_CANCELADA == <<"Operación cancelada.">>

MSG_AYUDA == <<"¡Hola hermano!\n\nSoy el asistente de la barbería. Te puedo ayudar con: ...">>

MSG_REPARTIDOR == <<"Eres repartidor no puedo procesar un mensaje que no sea conversacion">>

MSG_PROBLEMAS == <<"Disculpá, estoy teniendo problemas técnicos. ¿Querés que te derive con alguien del equipo?">>

MSG_DERIVACION == <<"Te voy a derivar con un asistente humano que te va a poder ayudar mejor. En breve te contactará alguien de nuestro equipo.\n\nContacto: ">> \o numero_derivacion

es_saludo(texto) ==
    LET texto_lower == Strip(Lower(texto))
        texto_limpio == Quitar(texto_lower, PUNTUACION)
    IN  \/ \E saludo \in SALUDOS :
              /\ Contains(texto_limpio, saludo)
              /\ (Len(texto_limpio) <= Len(saludo) + 10 \/ StartsWith(texto_limpio, saludo))
        \/ (Contains(texto_limpio, BUENAS) /\ Contains(texto_limpio, TODO_BIEN))

ya_se_saludo(est, numero) == DictGet(est[numero].context_data, "ya_se_saludo", FALSE)

get_flujo_paso(est, numero) == DictGet(est[numero].context_data, "flujo_paso", "")

marcar_saludo(w, numero) ==
    [w EXCEPT !.est[numero].context_data = DictPut(DictPut(@, "ya_se_saludo", TRUE), "flujo_paso", "saludo_inicial"),
              !.pasos = Append(@, "saludo_inicial")]

set_flujo_paso(w, numero, paso) ==
    [w EXCEPT !.est[numero].context_data = DictPut(@, "flujo_paso", paso), !.pasos = Append(@, paso)]

\* the two emoji of the list are left out: no text of the model holds one
es_respuesta_positiva(texto) ==
    LET texto_lower == Strip(Lower(texto))
    IN  Len(texto_lower) <= 20 /\ ContainsAny(texto_lower, POSITIVAS)

quiere_link(texto) ==
    LET texto_lower == Strip(Lower(texto))
    IN  texto # << >> /\ Len(texto_lower) <= 30 /\ ContainsAny(texto_lower, FRASES_LINK)

clear_state_solo_conversacion(w, numero) ==
    [w EXCEPT !.est = clear_waiting_for(@, numero), !.cd = EmptyDict]

\* reset_session + reset_conversation
clear_state(w, numero) ==
    [w EXCEPT !.est = clear_waiting_for(reset_estado(@, numero), numero), !.cd = EmptyDict]


----------------------------------------------------------------------------
(* Util/respuestas_barberia.py, Util/intents.py, Util/error_handler.py *)

keywords_map == <<
    [intencion |-> "precios", clave |-> "cuanto_sale", keywords |-> {
        <<"c", "u", "a", "n", "t", "o", " ", "s", "a", "l", "e">>,
        <<"c", "u", "á", "n", "t", "o", " ", "s", "a", "l", "e">>,
        <<"p", "r", "e", "c", "i", "o">>,
        <<"p", "r", "e", "c", "i", "o", "s">>,
        <<"c", "u", "á", "n", "t", "o", " ", "c", "u", "e", "s", "t", "a">>,
        <<"c", "u", "a", "n", "t", "o", " ", "c", "u", "e", "s", "t", "a">>,
        <<"t", "a", "r", "i", "f", "a">>,
        <<"c", "o", "s", "t", "o">>}],
    [intencion |-> "precios", clave |-> "mas_barato_otros_lados", keywords |-> {
        <<"m", "á", "s", " ", "b", "a", "r", "a", "t", "o">>,
        <<"m", "a", "s", " ", "b", "a", "r", "a", "t", "o">>,
        <<"m", "á", "s", " ", "e", "c", "o", "n", "ó", "m", "i", "c", "o">>,
        <<"m", "a", "s", " ", "e", "c", "o", "n", "o", "m", "i", "c", "o">>,
        <<"o", "t", "r", "o", "s", " ", "l", "a", "d", "o", "s">>,
        <<"o", "t", "r", "o", " ", "l", "u", "g", "a", "r">>,
        <<"m", "á", "s", " ", "c", "a", "r", "o">>,
        <<"m", "a", "s", " ", "c", "a", "r", "o">>}],
    [intencion |-> "ubicacion", clave |-> "donde_estan", keywords |-> {
        <<"d", "o", "n", "d", "e", " ", "e", "s", "t", "á", "n">>,
        <<"d", "ó", "n", "d", "e", " ", "e", "s", "t", "á", "n">>,
        <<"d", "o", "n", "d", "e", " ", "e", "s", "t", "a", "n">>,
        <<"u", "b", "i", "c", "a", "c", "i", "ó", "n">>,
        <<"u", "b", "i", "c", "a", "c", "i", "o", "n">>,
        <<"d", "i", "r", "e", "c", "c", "i", "ó", "n">>,
        <<"d", "i", "r", "e", "c", "c", "i", "o", "n">>,
        <<"d", "o", "n", "d", "e", " ", "q", "u", "e", "d", "a">>,
        <<"d", "ó", "n", "d", "e", " ", "q", "u", "e", "d", "a">>}],
    [intencion |-> "turnos", clave |-> "turno_hoy", keywords |-> {
        <<"t", "u", "r", "n", "o", " ", "h", "o", "y">>,
        <<"t", "u", "r", "n", "o", " ", "p", "a", "r", "a", " ", "h", "o", "y">>,
        <<"h", "o", "r", "a", " ", "h", "o", "y">>,
        <<"t", "e", "n", "e", "s", " ", "h", "o", "r", "a", " ", "h", "o", "y">>,
        <<"t", "i", "e", "n", "e", "s", " ", "h", "o", "r", "a", " ", "h", "o", "y">>,
        <<"d", "i", "s", "p", "o", "n", "i", "b", "l", "e", " ", "h", "o", "y">>}],
    [intencion |-> "turnos", clave |-> "agendar_con_tiempo", keywords |-> {
        <<"a", "g", "e", "n", "d", "a", "r", " ", "c", "o", "n", " ", "t", "i", "e", "m", "p", "o">>,
        <<"r", "e", "s", "e", "r", "v", "a", "r", " ", "c", "o", "n", " ", "t", "i", "e", "m", "p", "o">>,
        <<"c", "o", "n", " ", "c", "u", "á", "n", "t", "o", " ", "t", "i", "e", "m", "p", "o">>,
        <<"c", "o", "n", " ", "c", "u", "a", "n", "t", "o", " ", "t", "i", "e", "m", "p", "o">>,
        <<"a", "n", "t", "i", "c", "i", "p", "a", "c", "i", "ó", "n">>,
        <<"a", "n", "t", "i", "c", "i", "p", "a", "c", "i", "o", "n">>}],
    [intencion |-> "turnos", clave |-> "horarios_salida_trabajo", keywords |-> {
        <<"s", "a", "l", "g", "o", " ", "d", "e", "l", " ", "l", "a", "b", "u", "r", "o">>,
        <<"s", "a", "l", "g", "o", " ", "d", "e", "l", " ", "t", "r", "a", "b", "a", "j", "o">>,
        <<"s", "a", "l", "g", "o", " ", "a", " ", "l", "a", "s">>,
        <<"h", "o", "r", "a", "r", "i", "o", "s", " ", "d", "e", "s", "p", "u", "é", "s">>,
        <<"h", "o", "r", "a", "r", "i", "o", "s", " ", "d", "e", "s", "p", "u", "e", "s">>,
        <<"d", "e", "s", "p", "u", "é", "s", " ", "d", "e", "l", " ", "t", "r", "a", "b", "a", "j", "o">>,
        <<"d", "e", "s", "p", "u", "e", "s", " ", "d", "e", "l", " ", "t", "r", "a", "b", "a", "j", "o">>}],
    [intencion |-> "turnos", clave |-> "no_horarios_disponibles", keywords |-> {
        <<"n", "o", " ", "h", "a", "y", " ", "h", "o", "r", "a", "r", "i", "o", "s">>,
        <<"n", "o", " ", "h", "a", "y", " ", "t", "u", "r", "n", "o", "s">>,
        <<"n", "o", " ", "q", "u", "e", "d", "a", "n", " ", "t", "u", "r", "n", "o", "s">>,
        <<"n", "o", " ", "q", "u", "e", "d", "a", "n", " ", "h", "o", "r", "a", "r", "i", "o", "s">>,
        <<"s", "i", "n", " ", "h", "o", "r", "a", "r", "i", "o", "s">>,
        <<"s", "i", "n", " ", "t", "u", "r", "n", "o", "s">>}],
    [intencion |-> "turnos", clave |-> "no_veo_horarios_hoy", keywords |-> {
        <<"n", "o", " ", "v", "e", "o", " ", "h", "o", "r", "a", "r", "i", "o", "s", " ", "h", "o", "y">>,
        <<"n", "o", " ", "a", "p", "a", "r", "e", "c", "e", "n", " ", "h", "o", "r", "a", "r", "i", "o", "s", " ", "h", "o", "y">>,
        <<"n", "o", " ", "h", "a", "y", " ", "p", "a", "r", "a", " ", "h", "o", "y">>,
        <<"n", "o", " ", "q", "u", "e", "d", "a", " ", "n", "a", "d", "a", " ", "h", "o", "y">>}],
    [intencion |-> "situaciones", clave |-> "no_aparen_horarios_agenda", keywords |-> {
        <<"n", "o", " ", "a", "p", "a", "r", "e", "c", "e", "n", " ", "h", "o", "r", "a", "r", "i", "o", "s">>,
        <<"n", "o", " ", "v", "e", "o", " ", "h", "o", "r", "a", "r", "i", "o", "s">>,
        <<"n", "o", " ", "h", "a", "y", " ", "d", "i", "s", "p", "o", "n", "i", "b", "i", "l", "i", "d", "a", "d">>}],
    [intencion |-> "servicios", clave |-> "que_incluye_corte", keywords |-> {
        <<"q", "u", "é", " ", "i", "n", "c", "l", "u", "y", "e">>,
        <<"q", "u", "e", " ", "i", "n", "c", "l", "u", "y", "e">>,
        <<"q", "u", "e", " ", "t", "r", "a", "e">>,
        <<"q", "u", "é", " ", "t", "r", "a", "e">>,
        <<"i", "n", "c", "l", "u", "y", "e">>,
        <<"q", "u", "é", " ", "v", "i", "e", "n", "e">>,
        <<"q", "u", "e", " ", "v", "i", "e", "n", "e">>}],
    [intencion |-> "servicios", clave |-> "que_es_asesoramiento", keywords |-> {
        <<"q", "u", "é", " ", "e", "s", " ", "a", "s", "e", "s", "o", "r", "a", "m", "i", "e", "n", "t", "o">>,
        <<"q", "u", "e", " ", "e", "s", " ", "a", "s", "e", "s", "o", "r", "a", "m", "i", "e", "n", "t", "o">>,
        <<"q", "u", "é", " ", "e", "s", " ", "e", "l", " ", "a", "s", "e", "s", "o", "r", "a", "m", "i", "e", "n", "t", "o">>,
        <<"q", "u", "e", " ", "e", "s", " ", "e", "l", " ", "a", "s", "e", "s", "o", "r", "a", "m", "i", "e", "n", "t", "o">>,
        <<"a", "s", "e", "s", "o", "r", "a", "m", "i", "e", "n", "t", "o">>,
        <<"a", "s", "e", "s", "o", "r", "í", "a">>,
        <<"a", "s", "e", "s", "o", "r", "i", "a">>}],
    [intencion |-> "servicios", clave |-> "solo_barba", keywords |-> {
        <<"s", "o", "l", "o", " ", "b", "a", "r", "b", "a">>,
        <<"s", "o", "l", "o", " ", "l", "a", " ", "b", "a", "r", "b", "a">>,
        <<"h", "a", "c", "e", "n", " ", "b", "a", "r", "b", "a">>,
        <<"a", "r", "r", "e", "g", "l", "a", "n", " ", "b", "a", "r", "b", "a">>,
        <<"b", "a", "r", "b", "a", " ", "s", "o", "l", "a">>}],
    [intencion |-> "servicios", clave |-> "hacen_tinta", keywords |-> {
        <<"h", "a", "c", "e", "n", " ", "t", "i", "n", "t", "a">>,
        <<"h", "a", "c", "e", "n", " ", "t", "a", "t", "u", "a", "j", "e", "s">>,
        <<"t", "a", "t", "u", "a", "j", "e", "s">>,
        <<"t", "i", "n", "t", "a">>}],
    [intencion |-> "servicios", clave |-> "asesoria_se_cobra_aparte", keywords |-> {
        <<"a", "s", "e", "s", "o", "r", "í", "a", " ", "s", "e", " ", "c", "o", "b", "r", "a">>,
        <<"a", "s", "e", "s", "o", "r", "i", "a", " ", "s", "e", " ", "c", "o", "b", "r", "a">>,
        <<"a", "s", "e", "s", "o", "r", "a", "m", "i", "e", "n", "t", "o", " ", "s", "e", " ", "c", "o", "b", "r", "a">>,
        <<"s", "e", " ", "c", "o", "b", "r", "a", " ", "a", "p", "a", "r", "t", "e">>,
        <<"c", "o", "b", "r", "a", " ", "a", "p", "a", "r", "t", "e">>}],
    [intencion |-> "tiempo", clave |-> "cuanto_demora", keywords |-> {
        <<"c", "u", "á", "n", "t", "o", " ", "d", "e", "m", "o", "r", "a">>,
        <<"c", "u", "a", "n", "t", "o", " ", "d", "e", "m", "o", "r", "a">>,
        <<"c", "u", "á", "n", "t", "o", " ", "t", "a", "r", "d", "a">>,
        <<"c", "u", "a", "n", "t", "o", " ", "t", "a", "r", "d", "a">>,
        <<"d", "u", "r", "a", "c", "i", "ó", "n">>,
        <<"d", "u", "r", "a", "c", "i", "o", "n">>,
        <<"t", "i", "e", "m", "p", "o", " ", "d", "e", "m", "o", "r", "a">>}],
    [intencion |-> "pago", clave |-> "pago_tarjeta", keywords |-> {
        <<"p", "a", "g", "o", " ", "c", "o", "n", " ", "t", "a", "r", "j", "e", "t", "a">>,
        <<"a", "c", "e", "p", "t", "a", "n", " ", "t", "a", "r", "j", "e", "t", "a">>,
        <<"t", "a", "r", "j", "e", "t", "a", " ", "d", "e", " ", "c", "r", "é", "d", "i", "t", "o">>,
        <<"t", "a", "r", "j", "e", "t", "a", " ", "d", "e", " ", "c", "r", "e", "d", "i", "t", "o">>,
        <<"t", "a", "r", "j", "e", "t", "a">>,
        <<"d", "é", "b", "i", "t", "o">>,
        <<"d", "e", "b", "i", "t", "o">>}],
    [intencion |-> "productos", clave |-> "venden_productos", keywords |-> {
        <<"v", "e", "n", "d", "e", "n", " ", "p", "r", "o", "d", "u", "c", "t", "o", "s">>,
        <<"v", "e", "n", "d", "e", "n", " ", "c", "e", "r", "a">>,
        <<"p", "r", "o", "d", "u", "c", "t", "o", "s", " ", "a", " ", "l", "a", " ", "v", "e", "n", "t", "a">>,
        <<"p", "r", "o", "d", "u", "c", "t", "o", "s", " ", "e", "n", " ", "v", "e", "n", "t", "a">>,
        <<"c", "o", "m", "p", "r", "a", "r", " ", "p", "r", "o", "d", "u", "c", "t", "o", "s">>,
        <<"c", "o", "m", "p", "r", "a", "r", " ", "c", "e", "r", "a">>}],
    [intencion |-> "cancelaciones", clave |-> "cancelar_reagendar_1", keywords |-> {
        <<"r", "e", "a", "g", "e", "n", "d", "a", "r">>,
        <<"r", "e", " ", "a", "g", "e", "n", "d", "a", "r">>,
        <<"c", "a", "m", "b", "i", "a", "r", " ", "t", "u", "r", "n", "o">>,
        <<"c", "a", "m", "b", "i", "a", "r", " ", "c", "i", "t", "a">>,
        <<"m", "o", "v", "e", "r", " ", "t", "u", "r", "n", "o">>}],
    [intencion |-> "cancelaciones", clave |-> "cancelar_reagendar_2", keywords |-> {
        <<"n", "o", " ", "v", "o", "y", " ", "a", " ", "p", "o", "d", "e", "r">>,
        <<"n", "o", " ", "p", "u", "e", "d", "o", " ", "l", "l", "e", "g", "a", "r">>,
        <<"n", "o", " ", "p", "u", "e", "d", "o", " ", "i", "r">>,
        <<"c", "a", "n", "c", "e", "l", "a", "r">>,
        <<"c", "a", "n", "c", "e", "l", "a", "r", " ", "t", "u", "r", "n", "o">>,
        <<"c", "a", "n", "c", "e", "l", "a", "r", " ", "c", "i", "t", "a">>}],
    [intencion |-> "cancelaciones", clave |-> "no_pude_llegar", keywords |-> {
        <<"n", "o", " ", "p", "u", "d", "e", " ", "l", "l", "e", "g", "a", "r">>,
        <<"n", "o", " ", "l", "l", "e", "g", "u", "é">>,
        <<"n", "o", " ", "l", "l", "e", "g", "u", "e">>,
        <<"p", "e", "r", "d", "í", " ", "e", "l", " ", "t", "u", "r", "n", "o">>,
        <<"p", "e", "r", "d", "i", " ", "e", "l", " ", "t", "u", "r", "n", "o">>,
        <<"s", "e", " ", "m", "e", " ", "p", "a", "s", "ó">>,
        <<"s", "e", " ", "m", "e", " ", "p", "a", "s", "o">>}],
    [intencion |-> "situaciones", clave |-> "caer_sin_agenda", keywords |-> {
        <<"v", "o", "y", " ", "a", "h", "o", "r", "a">>,
        <<"c", "a", "e", "r", " ", "a", "h", "o", "r", "a">>,
        <<"s", "i", "n", " ", "a", "g", "e", "n", "d", "a">>,
        <<"s", "i", "n", " ", "r", "e", "s", "e", "r", "v", "a">>,
        <<"s", "i", "n", " ", "t", "u", "r", "n", "o">>,
        <<"l", "l", "e", "g", "a", "r", " ", "a", "h", "o", "r", "a">>}],
    [intencion |-> "situaciones", clave |-> "dos_personas", keywords |-> {
        <<"d", "o", "s", " ", "p", "e", "r", "s", "o", "n", "a", "s">>,
        <<"s", "o", "m", "o", "s", " ", "d", "o", "s">>,
        <<"d", "o", "s", " ", "t", "u", "r", "n", "o", "s">>,
        <<"v", "a", "m", "o", "s", " ", "d", "o", "s">>,
        <<"c", "o", "n", " ", "o", "t", "r", "a", " ", "p", "e", "r", "s", "o", "n", "a">>}],
    [intencion |-> "situaciones", clave |-> "no_manejo_web", keywords |-> {
        <<"n", "o", " ", "m", "e", " ", "m", "a", "n", "e", "j", "o">>,
        <<"n", "o", " ", "m", "a", "n", "e", "j", "o", " ", "w", "e", "b">>,
        <<"n", "o", " ", "s", "é", " ", "u", "s", "a", "r">>,
        <<"n", "o", " ", "s", "e", " ", "u", "s", "a", "r">>,
        <<"a", "y", "u", "d", "a", " ", "c", "o", "n", " ", "w", "e", "b">>,
        <<"a", "y", "u", "d", "a", " ", "r", "e", "s", "e", "r", "v", "a", "r">>}],
    [intencion |-> "situaciones", clave |-> "no_encuentro_lugar", keywords |-> {
        <<"n", "o", " ", "e", "n", "c", "u", "e", "n", "t", "r", "o">>,
        <<"n", "o", " ", "e", "n", "c", "u", "e", "n", "t", "r", "o", " ", "e", "l", " ", "l", "u", "g", "a", "r">>,
        <<"e", "s", "t", "á", " ", "c", "e", "r", "r", "a", "d", "o">>,
        <<"e", "s", "t", "a", " ", "c", "e", "r", "r", "a", "d", "o">>,
        <<"c", "e", "r", "r", "a", "d", "o">>,
        <<"n", "o", " ", "l", "o", " ", "e", "n", "c", "u", "e", "n", "t", "r", "o">>}],
    [intencion |-> "situaciones", clave |-> "llegando_tarde", keywords |-> {
        <<"l", "l", "e", "g", "a", "n", "d", "o", " ", "t", "a", "r", "d", "e">>,
        <<"l", "l", "e", "g", "a", "n", "d", "o", " ", "1", "0">>,
        <<"l", "l", "e", "g", "a", "n", "d", "o", " ", "1", "5">>,
        <<"a", "t", "r", "a", "s", "a", "d", "o">>,
        <<"m", "e", " ", "a", "t", "r", "a", "s", "é">>,
        <<"m", "e", " ", "a", "t", "r", "a", "s", "e">>,
        <<"l", "l", "e", "g", "a", "n", "d", "o", " ", "u", "n", "o", "s", " ", "m", "i", "n", "u", "t", "o", "s">>}],
    [intencion |-> "situaciones", clave |-> "llegando_muy_tarde", keywords |-> {
        <<"l", "l", "e", "g", "a", "n", "d", "o", " ", "3", "0">>,
        <<"l", "l", "e", "g", "a", "n", "d", "o", " ", "4", "0">>,
        <<"m", "u", "y", " ", "t", "a", "r", "d", "e">>,
        <<"m", "u", "y", " ", "a", "t", "r", "a", "s", "a", "d", "o">>,
        <<"a", "t", "r", "a", "s", "o", " ", "l", "a", "r", "g", "o">>,
        <<"l", "l", "e", "g", "a", "n", "d", "o", " ", "m", "u", "c", "h", "o", " ", "m", "á", "s", " ", "t", "a", "r", "d", "e">>}],
    [intencion |-> "situaciones", clave |-> "politica_horarios", keywords |-> {
        <<"p", "o", "l", "í", "t", "i", "c", "a">>,
        <<"p", "o", "l", "i", "t", "i", "c", "a">>,
        <<"h", "o", "r", "a", "r", "i", "o", "s">>,
        <<"r", "e", "s", "p", "e", "t", "o", " ", "t", "u", "r", "n", "o", "s">>,
        <<"c", "a", "n", "c", "e", "l", "a", "r", " ", "c", "o", "n", " ", "t", "i", "e", "m", "p", "o">>}],
    [intencion |-> "otros", clave |-> "ya_me_corte", keywords |-> {
        <<"y", "a", " ", "m", "e", " ", "c", "o", "r", "t", "é">>,
        <<"y", "a", " ", "m", "e", " ", "c", "o", "r", "t", "e">>,
        <<"m", "e", " ", "c", "o", "r", "t", "é", " ", "h", "a", "c", "e", " ", "p", "o", "c", "o">>,
        <<"m", "e", " ", "c", "o", "r", "t", "e", " ", "h", "a", "c", "e", " ", "p", "o", "c", "o">>,
        <<"c", "o", "r", "t", "é", " ", "h", "a", "c", "e", " ", "p", "o", "c", "o">>,
        <<"c", "o", "r", "t", "e", " ", "h", "a", "c", "e", " ", "p", "o", "c", "o">>}],
    [intencion |-> "otros", clave |-> "son_de_montevideo", keywords |-> {
        <<"s", "o", "n", " ", "d", "e", " ", "m", "o", "n", "t", "e", "v", "i", "d", "e", "o">>,
        <<"e", "s", "t", "á", "n", " ", "e", "n", " ", "m", "o", "n", "t", "e", "v", "i", "d", "e", "o">>,
        <<"e", "s", "t", "a", "n", " ", "e", "n", " ", "m", "o", "n", "t", "e", "v", "i", "d", "e", "o">>,
        <<"m", "o", "n", "t", "e", "v", "i", "d", "e", "o">>,
        <<"d", "e", " ", "d", "ó", "n", "d", "e", " ", "s", "o", "n">>,
        <<"d", "e", " ", "d", "o", "n", "d", "e", " ", "s", "o", "n">>}]>>


\* the loop over keywords_map: the first row with a keyword in the text, or None
RECURSIVE BuscarFila(_, _)
BuscarFila(filas, texto_lower) ==
    IF filas = << >> THEN None
    ELSE IF ContainsAny(texto_lower, Head(filas).keywords)
         THEN Some([intencion |-> Head(filas).intencion, clave |-> Head(filas).clave])
         ELSE BuscarFila(Tail(filas), texto_lower)

detectar_intencion_respuesta(texto) ==
    IF texto = << >> THEN None ELSE BuscarFila(keywords_map, Strip(Lower(texto)))

\* respuestas_barberia.json: a text for every (intencion, clave) of keywords_map
get_response(intencion, clave) == Some(<<"[respuestas_barberia.json] ", intencion, ".", clave>>)

PLACEHOLDERS_AGENDA == {"(link de agenda)", "(link de la agenda)"}

FRASES_ANTES_DEL_LINK == {"acá te dejo el link:", "Acá te dejo el link:", "Acá tenés el link:", "acá tenés el link:", "Ahi te la paso", "A continuación te dejo el link:"}

PLACEHOLDERS_MAPS == {"(link de Google Maps)", "(https://maps.app.goo.gl/uaJPmJrxUJr5wZE87)"}

RECURSIVE reemplazar_links(_, _, _)
reemplazar_links(respuesta, link_agenda, link_maps) ==
    IF respuesta = << >> THEN << >>
    ELSE LET tok == Head(respuesta)
             nuevo == IF link_agenda # << >> /\ tok \in PLACEHOLDERS_AGENDA THEN link_agenda
                      ELSE IF link_agenda # << >> /\ tok \in FRASES_ANTES_DEL_LINK THEN <<tok, "\n">> \o link_agenda
                      ELSE IF link_maps # << >> /\ tok \in PLACEHOLDERS_MAPS THEN link_maps
                      ELSE <<tok>>
         IN  nuevo \o reemplazar_links(Tail(respuesta), link_agenda, link_maps)

\* Util.intents.detectar_intencion: a keyword scan that names the intent, "" for none
detectar_intencion(texto) ==
    LET texto_lower == Strip(Lower(texto))
    IN  IF Contains(texto_lower, HUMANO) THEN "derivar_humano"
        ELSE IF Contains(texto_lower, PRECIO) THEN "precios"
        ELSE IF Contains(texto_lower, TURNO) THEN "turnos"
        ELSE ""

\* respuestas_barberia.detectar_clave_con_gemini.  g is what the call does: "sin_cliente"
\* (no API key), "raise" (the call of the model raises), "vacio" (no text in the
\* answer), "sin_json" (no JSON object in the answer), "nulo" (intencion or clave
\* null), or the pair (intencion, clave) of the answer.  Every exception is caught inside: the result
\* is the pair or None.
GeminiSinClave == {<<"sin_cliente">>, <<"raise">>, <<"vacio">>, <<"sin_json">>, <<"nulo">>}

detectar_clave_con_gemini(texto, g) == IF g \in GeminiSinClave THEN None ELSE Some(g)

\* detectar_intencion_unificada with the layers 2 and 3 scanned before the layer 1
detectar_intencion_unificada_predefinidas_primero(texto, g) ==
    IF texto = << >> THEN [res |-> None, gemini |-> FALSE]
    ELSE IF detectar_intencion_respuesta(texto) # None
    THEN [res |-> Some([intencion |-> detectar_intencion_respuesta(texto)[1].intencion, fuente |-> "predefinidas",
                        metadata |-> <<<<"clave", detectar_intencion_respuesta(texto)[1].clave>>>>]),
          gemini |-> FALSE]
    ELSE IF Len(Strip(texto)) > 10 /\ detectar_clave_con_gemini(texto, g) # None
    THEN [res |-> Some([intencion |-> detectar_clave_con_gemini(texto, g)[1][1], fuente |-> "gemini",
                        metadata |-> <<<<"clave", detectar_clave_con_gemini(texto, g)[1][2]>>>>]),
          gemini |-> TRUE]
    ELSE IF detectar_intencion(texto) # ""
    THEN [res |-> Some([intencion |-> detectar_intencion(texto), fuente |-> "keywords", metadata |-> << >>]), gemini |-> Len(Strip(texto)) > 10]
    ELSE [res |-> None, gemini |-> Len(Strip(texto)) > 10]

\* intent_detector.detectar_intencion_unificada.  res is the value returned (the
\* metadata dict as its list of items), gemini whether detectar_clave_con_gemini
\* was called.
detectar_intencion_unificada(texto, g) ==
    IF texto = << >> THEN [res |-> None, gemini |-> FALSE]
    ELSE IF detectar_intencion(texto) # ""
    THEN [res |-> Some([intencion |-> detectar_intencion(texto), fuente |-> "keywords", metadata |-> << >>]), gemini |-> FALSE]
    ELSE IF detectar_intencion_respuesta(texto) # None
    THEN [res |-> Some([intencion |-> detectar_intencion_respuesta(texto)[1].intencion, fuente |-> "predefinidas",
                        metadata |-> <<<<"clave", detectar_intencion_respuesta(texto)[1].clave>>>>]),
          gemini |-> FALSE]
    ELSE IF Len(Strip(texto)) > 10
    THEN IF detectar_clave_con_gemini(texto, g) # None
         THEN [res |-> Some([intencion |-> detectar_clave_con_gemini(texto, g)[1][1], fuente |-> "gemini",
                             metadata |-> <<<<"clave", detectar_clave_con_gemini(texto, g)[1][2]>>>>]),
               gemini |-> TRUE]
         ELSE [res |-> None, gemini |-> TRUE]
    ELSE [res |-> None, gemini |-> FALSE]

MensajeNotificacion(mensaje, numero_cliente) ==
    <<"*Error en el bot de barbería*\n\n*Cliente:* ">> \o numero_cliente \o <<"\n*Último mensaje del cliente:*\n">> \o mensaje
        \o <<"\n\n*Contexto general:*\n", "<traceback>">>

\* The send made by handle_text or by a function it calls: e.sends gives what the
\* n-th of them does.
EnviarHT(w, numero, mensaje, e) ==
    LET w1 == [w EXCEPT !.ns = @ + 1]
    IN  enviar_mensaje_whatsapp(w1, numero, mensaje, e.sends[IF w1.ns <= Len(e.sends) THEN w1.ns ELSE Len(e.sends)])

\* error_handler.manejar_error: num_empleado and num_desarrollador are "<NUMERO>",
\* so the only send is the one to the notification number
manejar_error(w, mensaje, numero_cliente, e) ==
    EnviarHT(w, NUMERO_NOTIFICACION, MensajeNotificacion(mensaje, numero_cliente), e)

TextoGenerado(intencion) == <<"[respuesta generada] ", intencion>>

\* procesar_texto_gemini.generar_respuesta_barberia.  What the n-th call of a
\* request does is given by e: the first e.vacios calls return "" (an answer of
\* the model that is blank once stripped), the others do e.gen: "texto" (an
\* answer), "con_link" (an answer in which the model wrote the agenda link),
\* "interno" (the call of the model raises inside the try: manejar_error and the
\* fixed text), "raise" (an exception leaves the function).  ret is the text.
generar_respuesta_barberia(w, intencion, texto_usuario, e) ==
    LET w0 == [w EXCEPT !.ng = @ + 1]
        o == IF w0.ng <= e.vacios THEN "vacio" ELSE e.gen
        w1 == manejar_error(w0, texto_usuario, <<"None">>, e)
    IN  CASE o = "vacio" -> [w0 EXCEPT !.ret = << >>]
          [] o = "texto" -> [w0 EXCEPT !.ret = TextoGenerado(intencion)]
          [] o = "con_link" -> [w0 EXCEPT !.ret = TextoGenerado(intencion) \o <<" ">> \o LINK_RESERVA \o <<" te espero">>]
          [] o = "interno" -> IF w1.exc THEN w1 ELSE [w1 EXCEPT !.ret = MSG_PROBLEMAS]
          [] OTHER -> [w0 EXCEPT !.exc = TRUE, !.gen_raise = TRUE]


----------------------------------------------------------------------------
(* Models/chat.py: handle_text *)

MSG_NO_SOPORTADO == <<"Tipo de mensaje no soportado aún.">>

\* The texts of the requests of the model
Textos == {T_HOLA, T_SI, T_LINK, T_LISTO, T_SALIR, T_CANCELAR, T_CANCEL, T_HOLA_DALE, T_NO_SE, T_PRECIO, T_HUMANO, T_AYUDA,
           T_RESPONDER, T_YA_VOY, MSG_NO_SOPORTADO}

\* What handle_text computes from texto_strip alone, computed once for each text;
\* an names the row of texto_strip in the operators that follow
Analisis ==
    [t \in {Strip(x) : x \in Textos} |->
        [texto_lower |-> Lower(t), es_saludo |-> es_saludo(t), quiere_link |-> quiere_link(t),
         es_respuesta_positiva |-> es_respuesta_positiva(t), confirma_reserva |-> ContainsAny(Lower(t), CONFIRMACIONES),
         intencion_critica |-> detectar_intencion(t), resultado_keywords |-> detectar_intencion_respuesta(t),
         pide_turno |-> Contains(Lower(t), TURNO) \/ Contains(Lower(t), AGENDA) \/ Contains(Lower(t), RESERVA)]]

\* the reply sent first and logged afterwards
Responder_envia_primero(w, numero, id_chat, respuesta, e) ==
    LET w1 == EnviarHT(w, numero, respuesta, e)
    IN  IF w1.exc THEN w1
        ELSE [registrar_mensaje(w1, id_chat, respuesta, FALSE, IF e.db = "registrar_bot" THEN "raise" ELSE "ok") EXCEPT !.fin = TRUE]

\* chat_service.registrar_mensaje(self.id_chat, respuesta, es_cliente=False) and
\* return enviar_mensaje_whatsapp(numero, respuesta)
Responder(w, numero, id_chat, respuesta, e) ==
    LET w1 == registrar_mensaje(w, id_chat, respuesta, FALSE, IF e.db = "registrar_bot" THEN "raise" ELSE "ok")
    IN  IF w1.exc THEN w1 ELSE [EnviarHT(w1, numero, respuesta, e) EXCEPT !.fin = TRUE]

\* "FORZAR link SIEMPRE al final si no está presente"
ForzarLink(respuesta, link_reserva) ==
    IF link_reserva # << >> /\ ~Contains(respuesta, link_reserva) THEN respuesta \o <<"\n\n">> \o link_reserva ELSE respuesta

\* message_handlers.handle_link_agenda: g is the state generar_respuesta_barberia
\* left, its ret the text.  ret is None or the message
ConRespuestaDeAgenda(g, link_agenda) ==
    IF g.exc THEN [g EXCEPT !.ret = None]
    ELSE IF g.ret = << >> THEN [g EXCEPT !.ret = None]
    ELSE [g EXCEPT !.ret = Some(ForzarLink(@, link_agenda))]

handle_link_agenda(w, texto, link_agenda, e) ==
    ConRespuestaDeAgenda(generar_respuesta_barberia(w, "link_agenda", texto, e), link_agenda)

\* generar_respuesta_barberia(...) and "if respuesta:" log it and return the send;
\* an empty answer lets handle_text go on
GenerarYResponder(w, numero, id_chat, intencion, texto_strip, con_link, e) ==
    LET w1 == generar_respuesta_barberia(w, intencion, texto_strip, e)
        respuesta == IF con_link THEN ForzarLink(reemplazar_links(w1.ret, LINK_RESERVA, << >>), LINK_RESERVA) ELSE w1.ret
    IN  IF w1.exc \/ w1.ret = << >> THEN w1 ELSE Responder(w1, numero, id_chat, respuesta, e)

Paso1(w, numero, texto_strip, an, id_chat, e) ==
    IF w.fin \/ w.exc THEN w
    ELSE IF an.es_saludo /\ ~ya_se_saludo(w.est, numero)
         THEN GenerarYResponder(marcar_saludo(w, numero), numero, id_chat, "saludo_inicial", texto_strip, FALSE, e)
         ELSE w

Paso2(w, numero, texto_strip, an, id_chat, flujo_paso, e) ==
    IF w.fin \/ w.exc THEN w
    ELSE IF flujo_paso = "saludo_inicial" /\ ya_se_saludo(w.est, numero)
         THEN IF an.quiere_link
              THEN GenerarYResponder(set_flujo_paso(w, numero, "link_enviado"), numero, id_chat, "link_agenda", texto_strip, TRUE, e)
              ELSE IF an.es_respuesta_positiva
                   THEN GenerarYResponder(set_flujo_paso(w, numero, "agendar_turno"), numero, id_chat, "agendar_turno", texto_strip, FALSE, e)
                   ELSE w
         ELSE w

Paso3(w, numero, texto_strip, an, id_chat, flujo_paso, e) ==
    IF w.fin \/ w.exc THEN w
    ELSE IF flujo_paso = "agendar_turno" /\ (an.quiere_link \/ an.es_respuesta_positiva)
         THEN GenerarYResponder(set_flujo_paso(w, numero, "link_enviado"), numero, id_chat, "link_agenda", texto_strip, TRUE, e)
         ELSE w

Paso4_sin_guarda(w, numero, texto_strip, an, id_chat, flujo_paso, e) ==
    IF w.fin \/ w.exc THEN w
    ELSE IF an.confirma_reserva
         THEN GenerarYResponder(set_flujo_paso(w, numero, "reserva_confirmada"), numero, id_chat, "post_reserva", texto_strip, FALSE, e)
         ELSE w

Paso4_limpia(w, numero, texto_strip, an, id_chat, flujo_paso, e) ==
    IF w.fin \/ w.exc THEN w
    ELSE IF flujo_paso = "link_enviado" /\ an.confirma_reserva
         THEN GenerarYResponder(clear_state(set_flujo_paso(w, numero, "reserva_confirmada"), numero), numero, id_chat, "post_reserva", texto_strip, FALSE, e)
         ELSE w

Paso4(w, numero, texto_strip, an, id_chat, flujo_paso, e) ==
    IF w.fin \/ w.exc THEN w
    ELSE IF flujo_paso = "link_enviado" /\ an.confirma_reserva
         THEN GenerarYResponder(set_flujo_paso(w, numero, "reserva_confirmada"), numero, id_chat, "post_reserva", texto_strip, FALSE, e)
         ELSE w

\* "DETECCIÓN ESPECIAL": the customer asks for the link outside the welcome flow
PedidoDeLink(w, numero, texto_strip, an, id_chat, e) ==
    IF w.fin \/ w.exc THEN w
    ELSE IF an.quiere_link
         THEN GenerarYResponder(w, numero, id_chat, "link_agenda", texto_strip, TRUE, e)
         ELSE w

DerivarHumano(w, numero, id_chat, intencion_critica, e) ==
    IF w.fin \/ w.exc THEN w
    ELSE IF intencion_critica = "derivar_humano" THEN Responder(w, numero, id_chat, MSG_DERIVACION, e)
         ELSE w

\* "PRIORIDAD 2": the predefined answer of the keyword tables
RespuestaPredefinida(w, numero, texto_strip, an, id_chat, e) ==
    LET resultado_keywords == an.resultado_keywords
        respuesta_predefinida == get_response(resultado_keywords[1].intencion, resultado_keywords[1].clave)
        respuesta_final == reemplazar_links(respuesta_predefinida[1], LINK_RESERVA, LINK_MAPS)
    IN  IF w.fin \/ w.exc THEN w
        ELSE IF resultado_keywords # None /\ respuesta_predefinida # None /\ respuesta_predefinida[1] # << >>
             THEN Responder(w, numero, id_chat,
                            IF an.pide_turno THEN ForzarLink(respuesta_final, LINK_RESERVA) ELSE respuesta_final, e)
             ELSE w

\* "PRIORIDAD 3", the try block: the texts of the model are short, the estimated
\* prompt is under 500 tokens and the generator is called directly
IntentarRespuestaGenerada(w, numero, texto_strip, an, id_chat, intencion_critica, e) ==
    LET w1 == generar_respuesta_barberia(w, intencion_critica, texto_strip, e)
        respuesta == reemplazar_links(w1.ret, LINK_RESERVA, LINK_MAPS)
        debe_incluir_link == intencion_critica \in {"turnos", "link_agenda"} \/ an.pide_turno
    IN  IF w1.exc THEN w1
        ELSE Responder(w1, numero, id_chat, IF debe_incluir_link THEN ForzarLink(respuesta, LINK_RESERVA) ELSE respuesta, e)

\* the except clause: manejar_error, then the fixed text.  w2 is the state the try
\* block left
ExceptoRespuestaGenerada(w2, numero, texto_strip, id_chat, e) ==
    LET w3 == manejar_error([w2 EXCEPT !.exc = FALSE, !.fin = FALSE, !.excepto = TRUE], texto_strip, numero, e)
    IN  IF ~w2.exc THEN w2
        ELSE IF w3.exc THEN w3
        ELSE Responder(w3, numero, id_chat, MSG_PROBLEMAS, e)

RespuestaGenerada(w, numero, texto_strip, an, id_chat, intencion_critica, e) ==
    IF w.fin \/ w.exc THEN w
    ELSE ExceptoRespuestaGenerada(IntentarRespuestaGenerada(w, numero, texto_strip, an, id_chat, intencion_critica, e),
                                  numero, texto_strip, id_chat, e)


\* Util.repartidor_util.handle_interactive and Util.calificacion_util.manejar_calificacion
\* work on the orders and the ratings, which are outside this model
handle_interactive(w, numero, id_boton) == [w EXCEPT !.fin = TRUE]

manejar_calificacion(w, numero, texto_strip) == [w EXCEPT !.fin = TRUE]

funcion_ayuda(w, numero, e) == [EnviarHT(w, numero, MSG_AYUDA, e) EXCEPT !.fin = TRUE]

\* What follows Paso 1: flujo_paso is read once, after Paso 1, and the later steps
\* test that value.  a1 is the state Paso 1 left
DespuesDePaso1(a1, numero, texto_strip, an, id_chat, e) ==
    LET flujo_paso == get_flujo_paso(a1.est, numero)
        intencion_critica == an.intencion_critica
    IN  RespuestaGenerada(
          RespuestaPredefinida(
            DerivarHumano(
              PedidoDeLink(
                Paso4(Paso3(Paso2(a1, numero, texto_strip, an, id_chat, flujo_paso, e),
                            numero, texto_strip, an, id_chat, flujo_paso, e),
                      numero, texto_strip, an, id_chat, flujo_paso, e),
                numero, texto_strip, an, id_chat, e),
              numero, id_chat, intencion_critica, e),
            numero, texto_strip, an, id_chat, e),
          numero, texto_strip, an, id_chat, intencion_critica, e)

\* The welcome flow and the three priorities that follow it
FlujoYRespuesta(w, numero, texto_strip, an, id_chat, e) ==
    DespuesDePaso1(Paso1(w, numero, texto_strip, an, id_chat, e), numero, texto_strip, an, id_chat, e)

\* texto_strip = texto.strip(); an is its row of Analisis
ConTextoStrip(w, numero, texto_strip, an, id_chat, e) ==
    IF numero \in Repartidores
    THEN IF StartsWith(texto_strip, PEDIDO_) \/ StartsWith(texto_strip, ENTREGADO_)
         THEN handle_interactive(w, numero, texto_strip)
         ELSE [EnviarHT(w, numero, MSG_REPARTIDOR, e) EXCEPT !.fin = TRUE]
    ELSE IF StartsWith(texto_strip, CALIFICAR_) THEN manejar_calificacion(w, numero, texto_strip)
    ELSE IF an.texto_lower \in COMANDOS_CANCELAR
         THEN [EnviarHT(clear_state(w, numero), numero, MSG_CANCELADA, e) EXCEPT !.fin = TRUE]
    ELSE IF an.texto_lower = AYUDA THEN funcion_ayuda(w, numero, e)
    ELSE FlujoYRespuesta(w, numero, texto_strip, an, id_chat, e)

\* ht = handle_text was called
handle_text(w, numero, texto, id_chat, e) ==
    ConTextoStrip([w EXCEPT !.ht = TRUE], numero, Strip(texto), Analisis[Strip(texto)], id_chat, e)

----------------------------------------------------------------------------
(* webhook_server.py: POST /webhook *)

RESPONSABLE_TEST == normalizar_numero_telefono(<<"59891453663">>)

TIPOS_TEXTO == {"text", "interactive"}

\* "#Responder <texto>" of the responsable: the text goes to the last customer
\* that wrote.  fin = the request has returned.
Responder_ultimo_cliente(w, numero, mensaje, tipo, e) ==
    LET mensaje_a_reenviar == Strip(SubSeq(Strip(mensaje), 11, Len(Strip(mensaje))))
        numero_normalizado == normalizar_numero_telefono(numero)
        clave == IF RESPONSABLE_TEST \in DOMAIN w.uc THEN Some(RESPONSABLE_TEST)
                 ELSE IF numero_normalizado \in DOMAIN w.uc THEN Some(numero_normalizado)
                 ELSE IF numero \in DOMAIN w.uc THEN Some(numero)
                 ELSE None
        ultimo_cliente == IF clave = None THEN << >> ELSE w.uc[clave[1]].ultimo_cliente
    IN  IF tipo \in TIPOS_TEXTO /\ StartsWith(Strip(mensaje), PREFIJO_RESPONDER)
           /\ mensaje_a_reenviar # << >> /\ ultimo_cliente # << >>
        THEN [EnviarHT(w, ultimo_cliente, mensaje_a_reenviar, e) EXCEPT !.fin = TRUE]
        ELSE w

\* receive does not return after the relay
DespuesDelRelevo_sigue(w0, numero, mensaje, tipo, e) ==
    IF w0.exc THEN [w0 EXCEPT !.relevo = "raise", !.n_relevo = Len(w0.out)]
    ELSE IF w0.ret THEN [w0 EXCEPT !.ns = Len(w0.out), !.relevo = "true", !.n_relevo = Len(w0.out)]
    ELSE Responder_ultimo_cliente([w0 EXCEPT !.ns = Len(w0.out), !.relevo = "false", !.n_relevo = Len(w0.out)],
                                  numero, mensaje, tipo, e)

\* lines 143-178.  w0 is the state handle_responsable_reply left; relevo is what
\* it returned and n_relevo the number of sends it made
DespuesDelRelevo(w0, numero, mensaje, tipo, e) ==
    IF w0.exc THEN [w0 EXCEPT !.relevo = "raise", !.n_relevo = Len(w0.out)]
    ELSE IF w0.ret THEN [w0 EXCEPT !.fin = TRUE, !.relevo = "true", !.n_relevo = Len(w0.out)]
    ELSE Responder_ultimo_cliente([w0 EXCEPT !.ns = Len(w0.out), !.relevo = "false", !.n_relevo = Len(w0.out)],
                                  numero, mensaje, tipo, e)

\* lines 134-178: the message of the responsable
MensajeDelResponsable(w, numero, mensaje, tipo, replied_message_id, e) ==
    IF ~is_responsable(numero) THEN w
    ELSE DespuesDelRelevo(handle_responsable_reply(w, numero, mensaje, replied_message_id, e.sends[1]), numero, mensaje, tipo, e)

\* lines 184-218: the body of the inner try
AtenderCliente(w, numero, mensaje, tipo, e) ==
    LET w1 == obtener_o_crear_cliente(w, numero, IF e.db = "cliente" THEN "raise" ELSE "ok")
        id_cliente == w1.ret
        w2 == obtener_o_crear_chat(w1, id_cliente, numero, IF e.db = "chat" THEN "raise" ELSE "ok")
        id_chat == w2.ch[w2.ret].id_chat
        w3 == IF tipo \in TIPOS_TEXTO
              THEN registrar_mensaje(w2, id_chat, mensaje, TRUE, IF e.db = "registrar" THEN "raise" ELSE "ok")
              ELSE w2
        w4 == IF is_responsable(numero) THEN w3
              ELSE [w3 EXCEPT !.uc = DictPut(@, RESPONSABLE_TEST, [ultimo_cliente |-> numero, ultimo_mensaje |-> mensaje])]
    IN  IF w1.exc THEN w1
        ELSE IF w2.exc THEN w2
        ELSE IF w3.exc THEN w3
        ELSE handle_text(w4, numero, IF tipo \in TIPOS_TEXTO THEN mensaje ELSE MSG_NO_SOPORTADO, id_chat, e)


\* lines 220-224: the finally clause.  t is the state the inner try left; cierres =
\* what the calls of db_session.close() did
CerrarSesion(t, e) ==
    IF e.cierre[1] = "raise" THEN [t EXCEPT !.exc = TRUE, !.cierres = Append(@, "raise")]
    ELSE [t EXCEPT !.ses = @ - 1, !.cierres = Append(@, "ok")]

\* lines 180-224.  r is the state the message of the responsable left
ConSesion(r, p, e) ==
    IF r.exc \/ r.fin THEN r
    ELSE IF e.db = "session" THEN [r EXCEPT !.exc = TRUE]
    ELSE CerrarSesion(AtenderCliente([r EXCEPT !.ses = @ + 1, !.db_session = TRUE], p.numero, p.mensaje, p.tipo, e), e)

\* lines 123-224: the try block.  p is the request: clase "json_invalido"
\* (request.json() raises), "sin_mensaje" (procesar_mensaje_recibido gives None: a
\* status notice, a message of the bot itself, a payload it cannot read) or
\* "mensaje" (numero, mensaje, tipo, replied_message_id).  e is what the
\* environment does during the request.
Cuerpo(w, p, e) ==
    IF p.clase = "json_invalido" THEN [w EXCEPT !.exc = TRUE]
    ELSE IF p.clase = "sin_mensaje" THEN w
    ELSE ConSesion(MensajeDelResponsable(w, p.numero, p.mensaje, p.tipo, p.replied_message_id, e), p, e)

\* lines 245-251: the second close and the answer.  h is the state
\* handle_critical_exception left, antes the number of sends made before it
CierreYRespuesta(h, antes, e) ==
    IF h.exc THEN [w |-> h, status |-> 500, critica |-> "excepcion", antes |-> antes]
    ELSE LET c == IF ~h.db_session THEN h
                  ELSE IF e.cierre[2] = "raise" THEN [h EXCEPT !.exc = TRUE, !.cierres = Append(@, "raise")]
                  ELSE IF e.cierre[1] = "raise" THEN [h EXCEPT !.ses = @ - 1, !.cierres = Append(@, "ok")]
                  ELSE [h EXCEPT !.cierres = Append(@, "ok")]
         IN  [w |-> c, status |-> IF c.exc THEN 500 ELSE 200, critica |-> "completa", antes |-> antes]

\* lines 226-251: the except clause.  cuerpo is the state the try block left
Excepcion(cuerpo, p, e) ==
    LET numero_error == IF p.clase = "mensaje" THEN p.numero ELSE DESCONOCIDO
        mensaje_error == IF p.clase = "mensaje" THEN p.mensaje ELSE ERROR_WEBHOOK
    IN  IF ~cuerpo.exc THEN [w |-> cuerpo, status |-> 200, critica |-> "no", antes |-> Len(cuerpo.out)]
        ELSE CierreYRespuesta(handle_critical_exception([cuerpo EXCEPT !.exc = FALSE], mensaje_error, numero_error,
                                                        "webhook_server", e.esc),
                              Len(cuerpo.out), e)

\* receive.  The result: the state left, the HTTP status (500 when an exception
\* leaves the handler), what became of handle_critical_exception ("no": not called,
\* "completa": it returned, "excepcion": it raised) and the number of sends made
\* before it.
receive(w, p, e) == Excepcion(Cuerpo(w, p, e), p, e)


----------------------------------------------------------------------------
(* The requests and the environment *)

MaxRecibidos == 2

MaxFallas == 1

MaxRecibidosFlujo == 4

EscOK == [dev |-> "ok", resp |-> "ok", cli |-> "ok"]

EntornoOK == [db |-> "none", cierre |-> <<"ok", "ok">>, esc |-> EscOK, sends |-> <<"ok">>, vacios |-> 0, gen |-> "texto"]

\* What the three sends of an escalation do: one representative for each place
\* where the first exception can come from and for each answer of the send to
\* the responsable.
Escaladas ==
    {EscOK, [EscOK EXCEPT !.dev = "raise"], [EscOK EXCEPT !.dev = "fail"], [EscOK EXCEPT !.resp = "raise"],
     [EscOK EXCEPT !.resp = "sin_id"], [EscOK EXCEPT !.resp = "fail"], [EscOK EXCEPT !.cli = "raise"],
     [EscOK EXCEPT !.cli = "fail"]}

\* A fault of the database: get_db_session, ClienteService, ChatService (the chat,
\* the customer's row, the bot's row) or the close of the session raises.
EntornosDB ==
    {[EntornoOK EXCEPT !.db = "session", !.esc = x] : x \in Escaladas}
    \cup {[EntornoOK EXCEPT !.db = d] : d \in {"cliente", "chat", "registrar", "registrar_bot"}}
    \cup {[EntornoOK EXCEPT !.cierre = c] : c \in {<<"raise", "ok">>, <<"raise", "raise">>}}
    \cup {[EntornoOK EXCEPT !.cierre = <<"raise", "ok">>, !.esc = [EscOK EXCEPT !.dev = "raise"]]}

\* A fault of the WhatsApp API in the sends of the request, the last outcome
\* standing for the sends that follow.
EntornosEnvio ==
    {[EntornoOK EXCEPT !.sends = x] : x \in {<<"sin_id">>, <<"fail">>}}
    \cup {[EntornoOK EXCEPT !.sends = <<"raise">>, !.esc = x] : x \in {EscOK, [EscOK EXCEPT !.dev = "raise"], [EscOK EXCEPT !.resp = "sin_id"]}}

\* The generator: blank answers, an error it handles itself, an exception
EntornosGen ==
    {[EntornoOK EXCEPT !.vacios = v] : v \in {1, 2}}
    \cup {[EntornoOK EXCEPT !.gen = g, !.sends = x] : g \in {"interno", "raise"}, x \in {<<"ok">>, <<"raise">>, <<"ok", "raise">>}}

Entornos == {EntornoOK} \cup EntornosDB \cup EntornosEnvio \cup EntornosGen

EntornosFlujo == {EntornoOK} \cup {[EntornoOK EXCEPT !.vacios = v] : v \in {1, 2}}

Mensaje(numero, mensaje, tipo, replied_message_id) ==
    [clase |-> "mensaje", numero |-> numero, mensaje |-> mensaje, tipo |-> tipo, replied_message_id |-> replied_message_id]

SinMensaje(clase) == [clase |-> clase, numero |-> << >>, mensaje |-> << >>, tipo |-> "", replied_message_id |-> None]

SinUltimo ==
    [p |-> SinMensaje("ninguno"), status |-> 200, critica |-> "no", antes |-> 0, out |-> << >>, registro |-> << >>,
     pasos |-> << >>, conversation_data |-> EmptyDict, gen_raise |-> FALSE, excepto |-> FALSE, relevo |-> "no",
     n_relevo |-> 0, ht |-> FALSE, db_session |-> FALSE, cierres |-> << >>]

\* One POST /webhook: the whole of receive
Recibir(p, e) ==
    \E r \in {receive(Mundo(ERROR_CONTEXT, ULTIMO_CLIENTE_CONTEXT, ESTADOS, EmptyDict, clientes, chats, mensajes,
                           sesiones_abiertas, reloj, ultimo_wamid), p, e)} :
        /\ ERROR_CONTEXT' = r.w.ec
        /\ ULTIMO_CLIENTE_CONTEXT' = r.w.uc
        /\ ESTADOS' = r.w.est
        /\ clientes' = r.w.cl
        /\ chats' = r.w.ch
        /\ mensajes' = r.w.ms
        /\ sesiones_abiertas' = r.w.ses
        /\ reloj' = r.w.rel
        /\ ultimo_wamid' = r.w.wam
        /\ recibidos' = recibidos + 1
        /\ fallas' = IF e = EntornoOK THEN fallas ELSE fallas + 1
        /\ ult' = [p |-> p, status |-> r.status, critica |-> r.critica, antes |-> r.antes, out |-> r.w.out,
                   registro |-> r.w.registro, pasos |-> r.w.pasos, conversation_data |-> r.w.cd,
                   gen_raise |-> r.w.gen_raise, excepto |-> r.w.excepto, relevo |-> r.w.relevo,
                   n_relevo |-> r.w.n_relevo, ht |-> r.w.ht, db_session |-> r.w.db_session, cierres |-> r.w.cierres]
        /\ UNCHANGED <<NUM_DESARROLLADOR, NUM_RESPONSABLE, pol, consulta>>

SinPolitica == [fase |-> "ninguna"]

SinConsulta == [fn |-> "ninguna"]

InitWebhook ==
    /\ ERROR_CONTEXT = << >>
    /\ ULTIMO_CLIENTE_CONTEXT = EmptyDict
    /\ ESTADOS = [n \in Numeros |-> EstadoInicial]
    /\ clientes = << >>
    /\ chats = << >>
    /\ mensajes = << >>
    /\ sesiones_abiertas = 0
    /\ reloj = 0
    /\ ultimo_wamid = 0
    /\ recibidos = 0
    /\ fallas = 0
    /\ ult = SinUltimo
    /\ pol = SinPolitica
    /\ consulta = SinConsulta

Init ==
    /\ NUM_DESARROLLADOR \in {NUM_POR_DEFECTO, NO_CONFIGURADO}
    /\ NUM_RESPONSABLE \in {NUM_POR_DEFECTO, NO_CONFIGURADO}
    /\ InitWebhook

\* the ids a reply of the responsable can quote: none, one the bot never gave, and
\* those of the notices recorded
IdsCitables == {None, Some(0)} \cup {Some(ERROR_CONTEXT[i].message_id_responsable) : i \in 1..Len(ERROR_CONTEXT)}

Permitido(e) == recibidos < MaxRecibidos /\ (e = EntornoOK \/ fallas < MaxFallas)

\* A customer writes and the environment may fail
RecibirDeCliente ==
    \E mensaje \in {T_HOLA, T_PRECIO}, e \in Entornos :
        /\ Permitido(e)
        /\ Recibir(Mensaje(Cliente1, mensaje, "text", None), e)

\* Another customer sends a picture
RecibirImagen ==
    /\ Permitido(EntornoOK)
    /\ Recibir(Mensaje(Cliente2, T_HOLA, "image", None), EntornoOK)

RecibirDeResponsable ==
    \E replied_message_id \in IdsCitables, e \in {EntornoOK} \cup EntornosEnvio :
        /\ Permitido(e)
        /\ Recibir(Mensaje(NUM_POR_DEFECTO, T_YA_VOY, "text", replied_message_id), e)

RecibirSinMensaje ==
    \E clase \in {"json_invalido", "sin_mensaje"}, x \in Escaladas :
        /\ Permitido([EntornoOK EXCEPT !.esc = x])
        /\ Recibir(SinMensaje(clase), [EntornoOK EXCEPT !.esc = x])

Next == RecibirDeCliente \/ RecibirImagen \/ RecibirDeResponsable \/ RecibirSinMensaje

Spec == Init /\ [][Next]_vars


----------------------------------------------------------------------------
(* The welcome flow: one customer goes through it, with no fault *)

InitFlujo ==
    /\ NUM_DESARROLLADOR = NUM_POR_DEFECTO
    /\ NUM_RESPONSABLE = NUM_POR_DEFECTO
    /\ InitWebhook

TextosFlujo == {T_HOLA, T_SI, T_LINK, T_LISTO, T_SALIR, T_HOLA_DALE}

\* the customer writes and the generator answers
RecibirEnFlujo ==
    \E mensaje \in TextosFlujo :
        /\ recibidos < MaxRecibidosFlujo
        /\ Recibir(Mensaje(Cliente1, mensaje, "text", None), EntornoOK)

\* the customer writes and the first answer of the generator is blank
RecibirConRespuestaVacia ==
    \E mensaje \in {T_HOLA_DALE, T_LISTO} :
        /\ recibidos < MaxRecibidosFlujo
        /\ Recibir(Mensaje(Cliente1, mensaje, "text", None), [EntornoOK EXCEPT !.vacios = 1])

\* another customer greets, and cancels
RecibirDeOtroCliente ==
    \E mensaje \in {T_HOLA, T_CANCEL} :
        /\ recibidos < MaxRecibidosFlujo
        /\ ya_se_saludo(ESTADOS, Cliente2) <=> mensaje = T_CANCEL
        /\ Recibir(Mensaje(Cliente2, mensaje, "text", None), EntornoOK)

\* the first message of a repartidor is a cancel command
RecibirDeRepartidor ==
    /\ recibidos < MaxRecibidosFlujo
    /\ obtener_chat_por_id_chat(chats, IdChat(Repartidor1)) = None
    /\ Recibir(Mensaje(Repartidor1, T_CANCELAR, "text", None), EntornoOK)

NextFlujo == RecibirEnFlujo \/ RecibirConRespuestaVacia \/ RecibirDeOtroCliente \/ RecibirDeRepartidor

SpecFlujo == InitFlujo /\ [][NextFlujo]_vars

----------------------------------------------------------------------------
(* The policy engine, applied to the data of a lateness notice *)

MaxMinutos == 17

MinutosNegativos == 2

InitPolitica ==
    /\ NUM_DESARROLLADOR = NUM_POR_DEFECTO
    /\ NUM_RESPONSABLE = NUM_POR_DEFECTO
    /\ ERROR_CONTEXT = << >>
    /\ ULTIMO_CLIENTE_CONTEXT = EmptyDict
    /\ ESTADOS = [n \in Numeros |-> EstadoInicial]
    /\ clientes = << >>
    /\ chats = << >>
    /\ mensajes = << >>
    /\ sesiones_abiertas = 0
    /\ reloj = 0
    /\ ultimo_wamid = 0
    /\ recibidos = 0
    /\ fallas = 0
    /\ ult = SinUltimo
    /\ consulta = SinConsulta
    /\ \E minutos \in {None} \cup {Some(n) : n \in (0 - MinutosNegativos)..MaxMinutos},
          intencion \in {"aviso_demora", "precios"},
          link_agenda \in {<< >>, LINK_RESERVA, <<"turno">>} :
          pol = [fase |-> "entrada", minutos |-> minutos, intencion |-> intencion, link_agenda |-> link_agenda,
                 estado |-> "", mensaje |-> None]

\* evaluar_politica_demora(minutos)
EvaluarDemora ==
    /\ pol.fase = "entrada"
    /\ pol' = [pol EXCEPT !.fase = "evaluada", !.estado = evaluar_politica_demora(pol.minutos)]
    /\ UNCHANGED varsWebhook

\* aplicar_politica(intencion, datos): datos has no "minutos_demora" when the
\* minutes could not be read
AplicarPolitica ==
    /\ pol.fase = "entrada"
    /\ LET datos == IF pol.minutos = None THEN EmptyDict ELSE DictPut(EmptyDict, "minutos_demora", pol.minutos)
       IN  pol' = [pol EXCEPT !.fase = "politica", !.estado = aplicar_politica(pol.intencion, datos).estado]
    /\ UNCHANGED varsWebhook

\* obtener_mensaje_segun_estado(estado, contexto)
ObtenerMensaje ==
    /\ pol.fase \in {"evaluada", "politica"}
    /\ pol' = [pol EXCEPT !.fase = "mensaje",
                          !.mensaje = obtener_mensaje_segun_estado(pol.estado, DictPut(EmptyDict, "link_agenda", pol.link_agenda))]
    /\ UNCHANGED varsWebhook

NextPolitica == EvaluarDemora \/ AplicarPolitica \/ ObtenerMensaje

SpecPolitica == InitPolitica /\ [][NextPolitica]_vars


----------------------------------------------------------------------------
(* Escalations and the replies of the responsable *)

MaxRecibidosRelevo == 3

\* a request of a customer fails when the session is opened, and is escalated
RecibirConFalla ==
    \E numero \in {Cliente1, Cliente2}, resp \in {"ok", "sin_id"} :
        /\ recibidos < MaxRecibidosRelevo
        /\ Recibir(Mensaje(numero, T_PRECIO, "text", None), [EntornoOK EXCEPT !.db = "session", !.esc.resp = resp])

\* the responsable writes: a reply that quotes a notice, or a message that quotes nothing
RecibirRespuesta ==
    \E replied_message_id \in IdsCitables, e \in {EntornoOK} \cup EntornosEnvio :
        /\ recibidos < MaxRecibidosRelevo
        /\ Recibir(Mensaje(NUM_POR_DEFECTO, T_YA_VOY, "text", replied_message_id), e)

NextRelevo == RecibirConFalla \/ RecibirRespuesta

SpecRelevo == InitFlujo /\ [][NextRelevo]_vars

----------------------------------------------------------------------------
(* The intent detector called on its own *)

T_VACIO == << >>

T_ESPACIOS == <<" ", " ", " ">>

T_QUE_ONDA == <<"q", "u", "e", " ", "o", "n", "d", "a", " ", "b", "r", "o">>

T_HOLA_RELLENO == <<" ", " ", " ", " ", "h", "o", "l", "a", " ", " ", " ", " ">>

T_LINK_PRECIO == <<"l", "i", "n", "k", " ", "y", " ", "p", "r", "e", "c", "i", "o">>

TextosIntencion == Textos \cup {T_VACIO, T_ESPACIOS, T_QUE_ONDA, T_HOLA_RELLENO, T_LINK_PRECIO}

\* what the classifier can answer
RespuestasGemini ==
    GeminiSinClave \cup {<<"turnos", "como_reservar">>, <<"otros", "son_de_montevideo">>}

DetectarIntencion ==
    \E texto \in TextosIntencion, g \in RespuestasGemini :
        /\ consulta' = [fn |-> "detectar_intencion_unificada", texto |-> texto, g |-> g,
                        r |-> detectar_intencion_unificada(texto, g)]
        /\ UNCHANGED varsSinConsulta

NextIntencion == DetectarIntencion

SpecIntencion == InitFlujo /\ [][NextIntencion]_vars

----------------------------------------------------------------------------
(* handle_link_agenda called on its own *)

MaxWamid == 2

LINK_OTRO == <<"https://otra.agenda/turnos">>

EntornosAgenda ==
    {[EntornoOK EXCEPT !.gen = g, !.vacios = v, !.sends = x] :
        g \in {"texto", "con_link", "interno", "raise"}, v \in {0, 1}, x \in {<<"ok">>, <<"raise">>}}

PedirLinkAgenda ==
    \E texto \in {T_LINK, T_SI, T_HOLA}, link_agenda \in {LINK_RESERVA, LINK_OTRO, << >>}, e \in EntornosAgenda :
        /\ ultimo_wamid < MaxWamid
        /\ \E r \in {handle_link_agenda(Mundo(ERROR_CONTEXT, ULTIMO_CLIENTE_CONTEXT, ESTADOS, EmptyDict, clientes, chats,
                                               mensajes, sesiones_abiertas, reloj, ultimo_wamid), texto, link_agenda, e)} :
               /\ consulta' = [fn |-> "handle_link_agenda", texto |-> texto, link_agenda |-> link_agenda, gen |-> e.gen,
                               vacios |-> e.vacios, ret |-> r.ret, exc |-> r.exc, out |-> r.out]
               /\ ultimo_wamid' = r.wam
        /\ UNCHANGED <<NUM_DESARROLLADOR, NUM_RESPONSABLE, ERROR_CONTEXT, ULTIMO_CLIENTE_CONTEXT, ESTADOS, clientes, chats,
                       mensajes, sesiones_abiertas, reloj, recibidos, fallas, ult, pol>>

NextAgenda == PedirLinkAgenda

SpecAgenda == InitFlujo /\ [][NextAgenda]_vars

----------------------------------------------------------------------------
(* The history read back: two customers write, the last messages of a chat are read *)

MaxRecibidosHistorial == 5

LIMITE_POR_DEFECTO == 6

RecibirParaHistorial ==
    \E numero \in {Cliente1, Cliente2}, mensaje \in {T_AYUDA, T_PRECIO} :
        /\ recibidos < MaxRecibidosHistorial
        /\ Recibir(Mensaje(numero, mensaje, "text", None), EntornoOK)

\* the limits of the two calls of the code: 4 (chat.py 546) and the default
LeerUltimos ==
    \E id_chat \in {IdChat(Cliente1), IdChat(Cliente2)}, limite \in {4, LIMITE_POR_DEFECTO} :
        /\ consulta' = [fn |-> "obtener_ultimos_mensajes", id_chat |-> id_chat, limite |-> limite,
                        r |-> obtener_ultimos_mensajes(mensajes, id_chat, limite)]
        /\ UNCHANGED varsSinConsulta

NextHistorial == RecibirParaHistorial \/ LeerUltimos

SpecHistorial == InitFlujo /\ [][NextHistorial]_vars

----------------------------------------------------------------------------
(* "#Responder": customers write, some requests fail, the responsable writes *)

MaxRecibidosResponder == 3

RecibirDeUnCliente ==
    \E numero \in {Cliente1, Cliente2}, db \in {"none", "session"} :
        /\ recibidos < MaxRecibidosResponder
        /\ Recibir(Mensaje(numero, T_PRECIO, "text", None), [EntornoOK EXCEPT !.db = db])

RecibirResponder ==
    \E mensaje \in {T_RESPONDER, T_YA_VOY}, replied_message_id \in IdsCitables, e \in {EntornoOK} \cup EntornosEnvio :
        /\ recibidos < MaxRecibidosResponder
        /\ Recibir(Mensaje(NUM_POR_DEFECTO, mensaje, "text", replied_message_id), e)

NextResponder == RecibirDeUnCliente \/ RecibirResponder

SpecResponder == InitFlujo /\ [][NextResponder]_vars

----------------------------------------------------------------------------
(* The message log of the requests of one customer *)

MaxRecibidosRegistro == 3

\* the generator raises or answers nothing, the insert of the bot row or of the
\* customer row raises, the send fails or raises
EntornosRegistro ==
    {[EntornoOK EXCEPT !.gen = "raise"], [EntornoOK EXCEPT !.vacios = 1], [EntornoOK EXCEPT !.db = "registrar_bot"],
     [EntornoOK EXCEPT !.db = "registrar"], [EntornoOK EXCEPT !.sends = <<"fail">>], [EntornoOK EXCEPT !.sends = <<"raise">>]}

\* the customer writes or presses a button: greeting flow, link, handoff,
\* predefined answer, generation
RecibirTexto ==
    \E mensaje \in {T_HOLA, T_SI, T_LINK, T_PRECIO, T_HUMANO, T_NO_SE}, tipo \in TIPOS_TEXTO :
        /\ recibidos < MaxRecibidosRegistro
        /\ Recibir(Mensaje(Cliente1, mensaje, tipo, None), EntornoOK)

\* the customer sends a command: its reply is not one of the logged ones
RecibirComando ==
    \E mensaje \in {T_AYUDA, T_CANCELAR} :
        /\ recibidos < MaxRecibidosRegistro
        /\ Recibir(Mensaje(Cliente1, mensaje, "text", None), EntornoOK)

\* the customer writes and something fails
RecibirConFallaDeRegistro ==
    \E mensaje \in {T_HOLA, T_NO_SE}, e \in EntornosRegistro :
        /\ recibidos < MaxRecibidosRegistro
        /\ Recibir(Mensaje(Cliente1, mensaje, "text", None), e)

\* the customer sends a picture
RecibirOtroTipo ==
    /\ recibidos < MaxRecibidosRegistro
    /\ Recibir(Mensaje(Cliente1, T_HOLA, "image", None), EntornoOK)

NextRegistro == RecibirTexto \/ RecibirComando \/ RecibirConFallaDeRegistro \/ RecibirOtroTipo

SpecRegistro == InitFlujo /\ [][NextRegistro]_vars

----------------------------------------------------------------------------
(* Properties *)

EsCliente(numero) == numero \in {Cliente1, Cliente2, Repartidor1}

\* the sends that handle_critical_exception made in the last request
EnviosDeEscalada(u) == SubSeq(u.out, u.antes + 1, Len(u.out))

NumeroDelError(u) == IF u.p.clase = "mensaje" THEN u.p.numero ELSE DESCONOCIDO

MensajeDelError(u) == IF u.p.clase = "mensaje" THEN u.p.mensaje ELSE ERROR_WEBHOOK

\* C1: POST /webhook answers HTTP 200 to every request, whatever step raises: no
\* exception leaves receive.
C1_Siempre200 == ult.status = 200

\* a request in which handle_critical_exception itself raised: the exception left receive
C1_ExcepcionEscapa == ult.status = 500 /\ ult.critica = "excepcion" /\ ult.out[Len(ult.out)].res = "raise"

\* C2: when handle_responsable_reply finds an unresolved error for the message of
\* the responsable, the first send of the request carries exactly mensaje_responsable
\* to the numero_cliente of that entry (the entry whose notice the reply quotes, or
\* an unresolved entry of the responsable when it quotes none), and no send of the
\* request goes to another customer.
C2_RelevoAlCliente ==
    [][\A i \in 1..Len(ERROR_CONTEXT) :
          LET p == ult'.p
              citado == p.replied_message_id # None
              pendientes == {j \in 1..Len(ERROR_CONTEXT) : ~ERROR_CONTEXT[j].resuelto
                                /\ (IF citado THEN ERROR_CONTEXT[j].message_id_responsable = p.replied_message_id[1]
                                    ELSE ERROR_CONTEXT[j].numero_responsable = p.numero)}
          IN  (recibidos' = recibidos + 1 /\ p.clase = "mensaje" /\ is_responsable(p.numero) /\ pendientes # {})
              => /\ Len(ult'.out) >= 1
                 /\ ult'.out[1].body = p.mensaje
                 /\ \E j \in pendientes : ult'.out[1].to = ERROR_CONTEXT[j].numero_cliente
                 /\ \A k \in 1..Len(ult'.out) : EsCliente(ult'.out[k].to) => ult'.out[k].to = ult'.out[1].to
                 /\ (citado => \A j \in pendientes : ult'.out[1].to = ERROR_CONTEXT[j].numero_cliente)]_vars

\* two customers have an unresolved error and the reply that quotes the notice of
\* the second one was relayed to that customer
C2_RelevoHecho ==
    /\ Len(ERROR_CONTEXT) = 2
    /\ ERROR_CONTEXT[1].numero_cliente = Cliente1 /\ ~ERROR_CONTEXT[1].resuelto
    /\ ERROR_CONTEXT[2].numero_cliente = Cliente2 /\ ERROR_CONTEXT[2].resuelto
    /\ ult.p.replied_message_id = Some(ERROR_CONTEXT[2].message_id_responsable)
    /\ ult.out = <<[to |-> Cliente2, body |-> T_YA_VOY, res |-> "ok", message_id |-> Some(ultimo_wamid)]>>


AmbosConfigurados == NUM_DESARROLLADOR # NO_CONFIGURADO /\ NUM_RESPONSABLE # NO_CONFIGURADO

TresAvisos(u) ==
    LET avisos == EnviosDeEscalada(u)
    IN  /\ Len(avisos) = 3
        /\ avisos[1].to = NUM_DESARROLLADOR
        /\ avisos[1].body = MensajeDesarrollador(MensajeDelError(u), NumeroDelError(u), "webhook_server")
        /\ avisos[2].to = NUM_RESPONSABLE
        /\ avisos[2].body = MensajeResponsable(MensajeDelError(u), NumeroDelError(u))
        /\ avisos[3].to = NumeroDelError(u)
        /\ avisos[3].body = MSG_ESPERA

\* C3: for every exception that escapes processing in receive, with both numbers
\* configured, handle_critical_exception sends one message to the developer, then
\* one to the responsable, then the holding message to the customer.
C3_TresAvisosEnOrden == (ult.critica # "no" /\ AmbosConfigurados) => TresAvisos(ult)

\* the send to the developer raised: the responsable and the customer got nothing
C3_EscaladaCortada ==
    /\ AmbosConfigurados
    /\ ult.critica = "excepcion"
    /\ Len(EnviosDeEscalada(ult)) = 1
    /\ ult.out[Len(ult.out)].to = NUM_DESARROLLADOR
    /\ ult.out[Len(ult.out)].res = "raise"

\* when no send of the escalation raises, the three messages go out in order
C3_SinExcepcionTresAvisos == (ult.critica = "completa" /\ AmbosConfigurados) => TresAvisos(ult)

\* C4: after handle_critical_exception completes for customer c, ERROR_CONTEXT
\* has one new entry (resuelto = FALSE, numero_cliente = c, message_id_responsable
\* = the id of the notice) exactly when the send to the responsable returned a
\* message id; with no id, no entry is added.  The entries it had are kept.
C4_RegistroSiHayId ==
    [][(recibidos' = recibidos + 1 /\ ult'.critica = "completa")
       => LET avisos == EnviosDeEscalada(ult')
              al_responsable == {k \in 1..Len(avisos) : /\ avisos[k].to = NUM_RESPONSABLE
                                                        /\ avisos[k].body = MensajeResponsable(MensajeDelError(ult'), NumeroDelError(ult'))}
              con_id == {k \in al_responsable : avisos[k].message_id # None}
              n == Len(ERROR_CONTEXT)
          IN  /\ SubSeq(ERROR_CONTEXT', 1, n) = ERROR_CONTEXT
              /\ IF con_id # {}
                 THEN /\ Len(ERROR_CONTEXT') = n + 1
                      /\ ~ERROR_CONTEXT'[n + 1].resuelto
                      /\ ERROR_CONTEXT'[n + 1].numero_cliente = NumeroDelError(ult')
                      /\ \E k \in con_id : ERROR_CONTEXT'[n + 1].message_id_responsable = avisos[k].message_id[1]
                 ELSE Len(ERROR_CONTEXT') = n]_vars

\* an escalation for Cliente1 completed and its notice got an id: the entry is there
C4_ErrorRegistrado ==
    /\ ult.critica = "completa"
    /\ ult.p.numero = Cliente1
    /\ Len(ERROR_CONTEXT) = 1
    /\ ERROR_CONTEXT[1].numero_cliente = Cliente1
    /\ ~ERROR_CONTEXT[1].resuelto
    /\ \E k \in 1..Len(ult.out) : ult.out[k].message_id = Some(ERROR_CONTEXT[1].message_id_responsable)

\* an escalation completed and the send to the responsable gave no id: no entry
C4_SinIdSinRegistro ==
    /\ ult.critica = "completa"
    /\ NUM_RESPONSABLE # NO_CONFIGURADO
    /\ \E k \in 1..Len(ult.out) : ult.out[k].to = NUM_RESPONSABLE /\ ult.out[k].res = "sin_id"
    /\ ERROR_CONTEXT = << >>

\* C5: evaluar_politica_demora gives 'demora_leve' for minutos <= 5, 'demora_media'
\* for 5 < minutos <= 10, 'demora_grave' for 10 < minutos <= 15, 'turno_perdido'
\* for minutos > 15 and 'demora_media' for None: the state is a function of the
\* argument alone.
C5_Umbrales ==
    pol.fase = "evaluada"
    => /\ pol.estado \in {"demora_leve", "demora_media", "demora_grave", "turno_perdido"}
       /\ pol.minutos = None => pol.estado = "demora_media"
       /\ pol.minutos # None
          => LET minutos == pol.minutos[1]
             IN  /\ minutos <= 5 => pol.estado = "demora_leve"
                 /\ (5 < minutos /\ minutos <= 10) => pol.estado = "demora_media"
                 /\ (10 < minutos /\ minutos <= 15) => pol.estado = "demora_grave"
                 /\ minutos > 15 => pol.estado = "turno_perdido"

\* the evaluation of exactly 5 minutes: the upper end of 'demora_leve'
C5_CincoMinutos == pol.fase = "evaluada" /\ pol.minutos = Some(5) /\ pol.estado = "demora_leve"

EstadosDeDemora == {"demora_leve", "demora_media", "demora_grave", "turno_perdido"}

\* C6: obtener_mensaje_segun_estado gives the fixed message of each of the four
\* delay states and None for any other state; the agenda link of the context is
\* appended for 'demora_grave' and 'turno_perdido' when it is not empty (and not
\* already in the message), and never for 'demora_leve' or 'demora_media'.
C6_MensajeSegunEstado ==
    pol.fase = "mensaje"
    => LET fijo == CASE pol.estado \in {"demora_leve", "demora_media"} -> MSG_DEMORA_LEVE
                     [] pol.estado = "demora_grave" -> MSG_DEMORA_GRAVE
                     [] pol.estado = "turno_perdido" -> MSG_TURNO_PERDIDO
                     [] OTHER -> << >>
           con_link == fijo \o <<"\n\n">> \o pol.link_agenda
       IN  /\ pol.estado \notin EstadosDeDemora => pol.mensaje = None
           /\ pol.estado \in {"demora_leve", "demora_media"} => pol.mensaje = Some(fijo)
           /\ pol.estado \in {"demora_grave", "turno_perdido"}
              => /\ pol.mensaje \in {Some(fijo), Some(con_link)}
                 /\ pol.link_agenda = << >> => pol.mensaje = Some(fijo)
                 /\ pol.link_agenda = LINK_RESERVA => pol.mensaje = Some(con_link)

\* the message of 'demora_grave' with the link of the agenda at its end
C6_GraveConLink ==
    /\ pol.fase = "mensaje"
    /\ pol.estado = "demora_grave"
    /\ pol.link_agenda = LINK_RESERVA
    /\ pol.mensaje = Some(MSG_DEMORA_GRAVE \o <<"\n\n">> \o LINK_RESERVA)


EsComandoCancelar(mensaje) == Analisis[Strip(mensaje)].texto_lower \in COMANDOS_CANCELAR

SesionLimpia(est, numero, u) ==
    /\ ~ya_se_saludo(est, numero)
    /\ get_flujo_paso(est, numero) = ""
    /\ get_waiting_for(est, numero) = None
    /\ u.conversation_data = EmptyDict

RespuestaCancelada(u) ==
    /\ Len(u.out) = 1
    /\ u.out[1].to = u.p.numero
    /\ u.out[1].body = MSG_CANCELADA

\* C7 as stated: from any session state of any number, 'cancelar', 'salir' or
\* 'cancel' (trimmed, lower-cased) clears the session state of the number, the
\* reply is the cancellation message and the other numbers keep their state.
C7_CancelarLimpiaSiempre ==
    [][(recibidos' = recibidos + 1 /\ ult'.p.clase = "mensaje" /\ EsComandoCancelar(ult'.p.mensaje))
       => /\ SesionLimpia(ESTADOS', ult'.p.numero, ult')
          /\ RespuestaCancelada(ult')
          /\ \A n \in Numeros \ {ult'.p.numero} : ESTADOS'[n] = ESTADOS[n]]_vars

\* C7: for a number that is not a registered repartidor, 'cancelar', 'salir' or
\* 'cancel' (trimmed, lower-cased) clears the session state of the number (greeting
\* flag false, flow step empty, no waiting-for, conversation data empty), the reply
\* is the cancellation message and the other numbers keep their state.  A
\* repartidor is answered that only conversation messages are processed.
C7_CancelarLimpia ==
    [][(recibidos' = recibidos + 1 /\ ult'.p.clase = "mensaje" /\ EsComandoCancelar(ult'.p.mensaje))
       => IF ult'.p.numero \in Repartidores
          THEN Len(ult'.out) = 1 /\ ult'.out[1].body = MSG_REPARTIDOR /\ ESTADOS' = ESTADOS
          ELSE /\ SesionLimpia(ESTADOS', ult'.p.numero, ult')
               /\ RespuestaCancelada(ult')
               /\ \A n \in Numeros \ {ult'.p.numero} : ESTADOS'[n] = ESTADOS[n]]_vars

\* Cliente1, who had been sent the link, wrote " Salir " while Cliente2 is in the
\* flow: Cliente1 is back at the start and Cliente2 is where it was
C7_CanceladoEnFlujo ==
    /\ ult.p.numero = Cliente1
    /\ ult.p.mensaje = T_SALIR
    /\ \E i \in 1..Len(mensajes) : mensajes[i].id_chat = IdChat(Cliente1) /\ ~mensajes[i].es_cliente
                                      /\ Contains(mensajes[i].contenido, LINK_RESERVA)
    /\ ESTADOS[Cliente1] = EstadoInicial
    /\ ya_se_saludo(ESTADOS, Cliente2)
    /\ RespuestaCancelada(ult)

FlujoCompletado(u) == u.pasos # << >> /\ u.pasos[Len(u.pasos)] = "reserva_confirmada"

PASOS == {"", "saludo_inicial", "agendar_turno", "link_enviado", "reserva_confirmada"}

\* the edges of the flow, each with what the text must be for handle_text to take it
AristaDelFlujo(de, a, texto_strip) ==
    \/ de = "" /\ a = "saludo_inicial" /\ Analisis[texto_strip].es_saludo
    \/ de = "saludo_inicial" /\ a = "agendar_turno" /\ Analisis[texto_strip].es_respuesta_positiva
    \/ de = "saludo_inicial" /\ a = "link_enviado" /\ Analisis[texto_strip].quiere_link
    \/ de = "agendar_turno" /\ a = "link_enviado"
          /\ (Analisis[texto_strip].es_respuesta_positiva \/ Analisis[texto_strip].quiere_link)
    \/ de = "link_enviado" /\ a = "reserva_confirmada" /\ Analisis[texto_strip].confirma_reserva

\* C9: the flow step of a number is one of '', 'saludo_inicial', 'agendar_turno',
\* 'link_enviado', 'reserva_confirmada'; every write that handle_text makes to it
\* follows an edge of the flow from the value it had, and after the request it is
\* the last value written, or '' after the reset of a cancel command.  The step of
\* a number that did not write does not change.
C9_SoloHaciaAdelante ==
    [][recibidos' = recibidos + 1
       => \A n \in Numeros :
             LET escritos == IF ult'.p.clase = "mensaje" /\ ult'.p.numero = n THEN ult'.pasos ELSE << >>
                 camino == <<get_flujo_paso(ESTADOS, n)>> \o escritos
                 despues == get_flujo_paso(ESTADOS', n)
             IN  /\ despues \in PASOS
                 /\ \A k \in 1..Len(escritos) : AristaDelFlujo(camino[k], camino[k + 1], Strip(ult'.p.mensaje))
                 /\ \/ despues = camino[Len(camino)]
                    \/ despues = "" /\ escritos = << >> /\ ult'.p.numero = n /\ EsComandoCancelar(ult'.p.mensaje)]_vars

\* one message that is a greeting and a positive reply, the answer to the greeting
\* being blank: the step went from '' to 'saludo_inicial' and on to 'agendar_turno'
C9_DosPasosEnUnMensaje ==
    /\ ult.p.mensaje = T_HOLA_DALE
    /\ ult.pasos = <<"saludo_inicial", "agendar_turno">>
    /\ get_flujo_paso(ESTADOS, Cliente1) = "agendar_turno"

\* C10: at most one Chat per phone.  A request adds at most one row to the table,
\* the row has the id 'chat_<telefono>' of its sender and no row had that id; the
\* rows there were are kept, and the rows the request logs go to that chat.
C10_UnChatPorTelefono ==
    [][recibidos' = recibidos + 1
       => LET n == Len(chats)
              id_chat == <<"chat_">> \o ult'.p.numero
          IN  /\ SubSeq(chats', 1, n) = chats
              /\ Len(chats') <= n + 1
              /\ Len(chats') = n + 1
                 => /\ chats'[n + 1].id_chat = id_chat
                    /\ \A i \in 1..n : chats[i].id_chat # id_chat
              /\ \A i \in (Len(mensajes) + 1)..Len(mensajes') : mensajes'[i].id_chat = id_chat
              /\ \A i, j \in 1..Len(chats') : chats'[i].id_chat = chats'[j].id_chat => i = j]_vars

\* the second message of a phone: its two rows are in the one chat of the phone
C10_SegundoMensaje ==
    /\ recibidos = 2
    /\ Len(chats) = 1
    /\ chats[1].id_chat = <<"chat_">> \o Cliente1
    /\ Cardinality({i \in 1..Len(mensajes) : mensajes[i].es_cliente /\ mensajes[i].id_chat = chats[1].id_chat}) = 2


EsRegistrar(r) == r.op = "registrar"

\* the rows that the calls of registrar_mensaje of one request asked for, in order
FilasPedidas(registro) ==
    [i \in 1..Len(SelectSeq(registro, EsRegistrar)) |->
        [id_chat |-> SelectSeq(registro, EsRegistrar)[i].a,
         contenido |-> SelectSeq(registro, EsRegistrar)[i].body,
         es_cliente |-> SelectSeq(registro, EsRegistrar)[i].es_cliente]]

\* C11: the message log is append-only.  In every step the log before is a prefix
\* of the log after, and a request adds exactly one row per call of
\* registrar_mensaje that returned, in call order, with the chat id, the content
\* and the is-customer flag the call was given.
C11_SoloSeAgrega ==
    [][/\ Len(mensajes) <= Len(mensajes')
       /\ SubSeq(mensajes', 1, Len(mensajes)) = mensajes
       /\ recibidos' # recibidos =>
              SubSeq(mensajes', Len(mensajes) + 1, Len(mensajes')) = FilasPedidas(ult'.registro)
       /\ recibidos' = recibidos => mensajes' = mensajes]_vars

\* a request arrived with rows already in the log and added the customer's row and
\* the bot's row after them
C11_DosFilasMas ==
    /\ Len(FilasPedidas(ult.registro)) = 2
    /\ Len(mensajes) > 2
    /\ mensajes[Len(mensajes) - 1].es_cliente
    /\ ~mensajes[Len(mensajes)].es_cliente
    /\ FilasPedidas(ult.registro) = SubSeq(mensajes, Len(mensajes) - 1, Len(mensajes))

\* C12: detectar_intencion_unificada applies its layers in order and stops at the
\* first match: a basic-keyword match is returned with source 'keywords'; otherwise
\* a predefined-response match is returned with source 'predefinidas' and its
\* clave; the classifier is called only when the text is not empty, both keyword
\* layers found nothing and the trimmed text has more than 10 characters; empty
\* text gives None, and a classifier that fails or finds nothing gives None.
C12_CapasEnOrden ==
    consulta.fn = "detectar_intencion_unificada" =>
        /\ consulta.texto = << >> => consulta.r.res = None
        /\ (consulta.texto # << >> /\ detectar_intencion(consulta.texto) # "") =>
               /\ consulta.r.res # None
               /\ consulta.r.res[1].fuente = "keywords"
               /\ consulta.r.res[1].intencion = detectar_intencion(consulta.texto)
        /\ (consulta.texto # << >> /\ detectar_intencion(consulta.texto) = "" /\ detectar_intencion_respuesta(consulta.texto) # None) =>
               /\ consulta.r.res # None
               /\ consulta.r.res[1].fuente = "predefinidas"
               /\ consulta.r.res[1].intencion = detectar_intencion_respuesta(consulta.texto)[1].intencion
               /\ consulta.r.res[1].metadata = <<<<"clave", detectar_intencion_respuesta(consulta.texto)[1].clave>>>>
        /\ consulta.r.gemini =>
               /\ consulta.texto # << >>
               /\ detectar_intencion(consulta.texto) = ""
               /\ detectar_intencion_respuesta(consulta.texto) = None
               /\ Len(Strip(consulta.texto)) > 10
        /\ (consulta.r.gemini /\ consulta.g \in GeminiSinClave) => consulta.r.res = None
        /\ (consulta.r.res # None /\ consulta.r.res[1].fuente = "gemini") => consulta.r.gemini

\* a text that both keyword layers match came back from the first layer
C12_DosCapasCoinciden ==
    /\ consulta.fn = "detectar_intencion_unificada"
    /\ detectar_intencion(consulta.texto) # ""
    /\ detectar_intencion_respuesta(consulta.texto) # None
    /\ consulta.r.res # None
    /\ consulta.r.res[1].fuente = "keywords"

\* the generator raised inside the try of the generation branch of handle_text and
\* the except clause took over
GeneracionFallida(u) == u.gen_raise /\ u.excepto

\* the notice of manejar_error went out, and the fixed text was logged as a bot row
\* of the customer's chat and sent to the customer
FallbackCompleto(u) ==
    /\ \E i \in 1..Len(u.out) :
           /\ u.out[i].to = NUMERO_NOTIFICACION
           /\ u.out[i].body = MensajeNotificacion(Strip(u.p.mensaje), u.p.numero)
    /\ \E i \in 1..Len(u.out) : u.out[i].to = u.p.numero /\ u.out[i].body = MSG_PROBLEMAS
    /\ \E i \in 1..Len(FilasPedidas(u.registro)) :
           FilasPedidas(u.registro)[i] = [id_chat |-> IdChat(u.p.numero), contenido |-> MSG_PROBLEMAS, es_cliente |-> FALSE]

\* C13: when response generation raises inside the generation branch of
\* handle_text, no exception leaves handle_text: manejar_error notifies a human,
\* and the fixed fallback message is logged and sent to the customer.
C13_FallaContenida == GeneracionFallida(ult) => (ult.critica = "no" /\ FallbackCompleto(ult))

\* the generator raised in the generation branch and the send of manejar_error
\* raised too: the exception left handle_text and the customer got no fallback
C13_ExcepcionSaleDeHandleText ==
    /\ GeneracionFallida(ult)
    /\ ult.critica # "no"
    /\ ult.out[1].to = NUMERO_NOTIFICACION
    /\ ult.out[1].res = "raise"
    /\ \A i \in 1..Len(ult.out) : ult.out[i].body # MSG_PROBLEMAS

\* the same statement for the requests in which no send of handle_text raises
C13_SinEnvioQueFalla ==
    (GeneracionFallida(ult) /\ \A i \in 1..Len(ult.out) : ult.out[i].res # "raise") =>
        (ult.critica = "no" /\ FallbackCompleto(ult))

\* the generator raised, every send worked, and the fallback went out
C13_FallbackEnviado == GeneracionFallida(ult) /\ ult.critica = "no" /\ FallbackCompleto(ult)

LlamadaDeAgenda == consulta.fn = "handle_link_agenda" /\ consulta.link_agenda # << >>

\* C14: every call of handle_link_agenda with a non-empty link_agenda returns a
\* message that contains link_agenda.
C14_SiempreConLink ==
    LlamadaDeAgenda => (~consulta.exc /\ consulta.ret # None /\ Contains(consulta.ret[1], consulta.link_agenda))

\* the generator's answer was blank: handle_link_agenda returned None, no message
\* and no link
C14_SinMensaje == LlamadaDeAgenda /\ ~consulta.exc /\ consulta.ret = None /\ consulta.vacios = 1

\* the same statement for the calls that return a message: it contains the link,
\* at its end when the generated text did not have it
C14_ConLinkSiHayMensaje ==
    (LlamadaDeAgenda /\ consulta.ret # None) =>
        /\ Contains(consulta.ret[1], consulta.link_agenda)
        /\ (consulta.gen # "con_link" \/ consulta.link_agenda # LINK_RESERVA) =>
               SubSeq(consulta.ret[1], Len(consulta.ret[1]) - Len(consulta.link_agenda) + 1, Len(consulta.ret[1])) = consulta.link_agenda

\* the generated text lacked the link and the message returned ends with it
C14_LinkAlFinal ==
    /\ LlamadaDeAgenda
    /\ consulta.gen = "texto"
    /\ consulta.ret = Some(TextoGenerado("link_agenda") \o <<"\n\n">> \o consulta.link_agenda)

Cuantos(r, role) == Cardinality({i \in 1..Len(r) : r[i].role = role})

\* r is the last rows of the chat in the log ms, oldest first, at most limite of them
UltimosEnOrden(ms, id_chat, limite, r) ==
    /\ Len(r) <= limite
    /\ Len(r) = IF Len(FiltrarChat(ms, id_chat)) < limite THEN Len(FiltrarChat(ms, id_chat)) ELSE limite
    /\ \A i \in 1..Len(r) :
           /\ r[i].content = FiltrarChat(ms, id_chat)[Len(FiltrarChat(ms, id_chat)) - Len(r) + i].contenido
           /\ (r[i].role = "user") = FiltrarChat(ms, id_chat)[Len(FiltrarChat(ms, id_chat)) - Len(r) + i].es_cliente
           /\ r[i].role \in {"user", "bot"}

\* C15: obtener_ultimos_mensajes returns the most recent messages of the chat,
\* oldest first, at most limite of them, of which, with the default limit of 6, at
\* most 3 are customer messages and at most 3 are bot messages.
C15_TresYTres ==
    [][consulta'.fn = "obtener_ultimos_mensajes" /\ consulta' # consulta =>
          /\ UltimosEnOrden(mensajes, consulta'.id_chat, consulta'.limite, consulta'.r)
          /\ consulta'.limite = LIMITE_POR_DEFECTO =>
                 (Cuantos(consulta'.r, "user") <= 3 /\ Cuantos(consulta'.r, "bot") <= 3)]_vars

\* a read with the default limit gave four customer messages
C15_CuatroDelCliente ==
    /\ consulta.fn = "obtener_ultimos_mensajes"
    /\ consulta.limite = LIMITE_POR_DEFECTO
    /\ Cuantos(consulta.r, "user") = 4

\* the same statement without the bound per role
C15_UltimosEnOrden ==
    [][consulta'.fn = "obtener_ultimos_mensajes" /\ consulta' # consulta =>
          UltimosEnOrden(mensajes, consulta'.id_chat, consulta'.limite, consulta'.r)]_vars

\* a read that left older rows of the chat out and skipped the rows of the other chat
C15_LecturaParcial ==
    /\ consulta.fn = "obtener_ultimos_mensajes"
    /\ Len(consulta.r) = consulta.limite
    /\ consulta.limite > 1
    /\ Len(FiltrarChat(mensajes, consulta.id_chat)) > consulta.limite
    /\ Len(mensajes) > Len(FiltrarChat(mensajes, consulta.id_chat))
    /\ consulta.r[1] # consulta.r[consulta.limite]

\* the step is a request of the responsable
DelResponsable(u) == u.p.clase = "mensaje" /\ is_responsable(u.p.numero)

\* the unresolved entries of ec registered with the message id
ConEseId(ec, message_id) == {j \in 1..Len(ec) : ~ec[j].resuelto /\ ec[j].message_id_responsable = message_id}

\* the unresolved entries of ec of the responsable
DelOperador(ec, numero) == {j \in 1..Len(ec) : ~ec[j].resuelto /\ ec[j].numero_responsable = numero}

\* C16: an escalated error is relayed at most once.  When handle_responsable_reply
\* returns True it made one successful send and exactly one entry, unresolved
\* before, is resolved after; a later message of the responsable that quotes the
\* message id of a resolved entry finds no active error: handle_responsable_reply
\* sends nothing and returns False, no send of the request goes to a customer and
\* the entries of ERROR_CONTEXT are unchanged; a resolved entry never becomes
\* unresolved again.
C16_UnSoloRelevo ==
    [][recibidos' = recibidos + 1 =>
          /\ \A j \in 1..Len(ERROR_CONTEXT) : ERROR_CONTEXT[j].resuelto => ERROR_CONTEXT'[j].resuelto
          /\ ult'.relevo = "true" =>
                 /\ ult'.n_relevo = 1 /\ ult'.out[1].res \in {"ok", "sin_id"}
                 /\ Cardinality({j \in 1..Len(ERROR_CONTEXT) : ~ERROR_CONTEXT[j].resuelto /\ ERROR_CONTEXT'[j].resuelto}) = 1
          /\ (/\ DelResponsable(ult')
              /\ ult'.p.replied_message_id # None
              /\ \E j \in 1..Len(ERROR_CONTEXT) :
                     ERROR_CONTEXT[j].resuelto /\ ERROR_CONTEXT[j].message_id_responsable = ult'.p.replied_message_id[1]) =>
                 /\ ult'.relevo = "false"
                 /\ ult'.n_relevo = 0
                 /\ \A k \in 1..Len(ult'.out) : ~EsCliente(ult'.out[k].to)
                 /\ SubSeq(ERROR_CONTEXT', 1, Len(ERROR_CONTEXT)) = ERROR_CONTEXT]_vars

\* the responsable quoted the notice of an error already relayed: nothing went to
\* the customer and the message was answered as any other message
C16_SegundaRespuesta ==
    /\ recibidos = 3
    /\ Len(ERROR_CONTEXT) = 1
    /\ ERROR_CONTEXT[1].resuelto
    /\ ult.p.replied_message_id = Some(ERROR_CONTEXT[1].message_id_responsable)
    /\ ult.relevo = "false"
    /\ ult.n_relevo = 0
    /\ ult.ht
    /\ \A k \in 1..Len(ult.out) : ult.out[k].to = NUM_RESPONSABLE

\* C17: when the send that forwards the reply of the responsable reports no
\* success, handle_responsable_reply returns False and ERROR_CONTEXT is unchanged:
\* the error stays unresolved, and a later reply finds it again.
C17_FalloSinResolver ==
    [][(recibidos' = recibidos + 1 /\ ult'.relevo # "no" /\ ult'.n_relevo = 1 /\ ult'.out[1].res = "fail") =>
          /\ ult'.relevo = "false"
          /\ ERROR_CONTEXT' = ERROR_CONTEXT
          /\ \E j \in 1..Len(ERROR_CONTEXT') :
                 /\ ~ERROR_CONTEXT'[j].resuelto
                 /\ ERROR_CONTEXT'[j].numero_cliente = ult'.out[1].to
                 /\ BuscarError(ERROR_CONTEXT', ult'.p.numero, ult'.p.replied_message_id) = j]_vars

\* the forward failed and the error is still unresolved
C17_RelevoFallido ==
    /\ ult.relevo = "false"
    /\ ult.n_relevo = 1
    /\ ult.out[1] = [to |-> Cliente1, body |-> T_YA_VOY, res |-> "fail", message_id |-> None]
    /\ Len(ERROR_CONTEXT) = 1
    /\ ~ERROR_CONTEXT[1].resuelto

\* C18: with no replied-message id, handle_responsable_reply relays the message to
\* the customer of the unresolved error of that responsable registered last; with
\* a replied-message id it uses only the unresolved error registered with that id:
\* when there is none it sends nothing and returns False, whatever other errors
\* are unresolved.
C18_ErrorElegido ==
    [][(recibidos' = recibidos + 1 /\ DelResponsable(ult')) =>
          /\ (ult'.p.replied_message_id = None /\ DelOperador(ERROR_CONTEXT, ult'.p.numero) # {}) =>
                 /\ ult'.n_relevo = 1
                 /\ ult'.out[1].body = ult'.p.mensaje
                 /\ \E j \in DelOperador(ERROR_CONTEXT, ult'.p.numero) :
                        /\ \A k \in DelOperador(ERROR_CONTEXT, ult'.p.numero) : k <= j
                        /\ ult'.out[1].to = ERROR_CONTEXT[j].numero_cliente
                        /\ ult'.relevo = "true" => ERROR_CONTEXT'[j].resuelto
          /\ (ult'.p.replied_message_id = None /\ DelOperador(ERROR_CONTEXT, ult'.p.numero) = {}) =>
                 (ult'.relevo = "false" /\ ult'.n_relevo = 0)
          /\ (ult'.p.replied_message_id # None /\ ConEseId(ERROR_CONTEXT, ult'.p.replied_message_id[1]) # {}) =>
                 /\ ult'.n_relevo = 1
                 /\ ult'.out[1].body = ult'.p.mensaje
                 /\ \E j \in ConEseId(ERROR_CONTEXT, ult'.p.replied_message_id[1]) :
                        /\ ult'.out[1].to = ERROR_CONTEXT[j].numero_cliente
                        /\ ult'.relevo = "true" => ERROR_CONTEXT'[j].resuelto
          /\ (ult'.p.replied_message_id # None /\ ConEseId(ERROR_CONTEXT, ult'.p.replied_message_id[1]) = {}) =>
                 /\ ult'.relevo = "false"
                 /\ ult'.n_relevo = 0
                 /\ SubSeq(ERROR_CONTEXT', 1, Len(ERROR_CONTEXT)) = ERROR_CONTEXT]_vars

\* two errors were unresolved, the older of Cliente1 and the newer of Cliente2: the
\* message that quotes nothing went to Cliente2 and only that error is resolved
C18_AlMasReciente ==
    /\ Len(ERROR_CONTEXT) = 2
    /\ ERROR_CONTEXT[1].numero_cliente = Cliente1 /\ ~ERROR_CONTEXT[1].resuelto
    /\ ERROR_CONTEXT[2].numero_cliente = Cliente2 /\ ERROR_CONTEXT[2].resuelto
    /\ ult.p.replied_message_id = None
    /\ ult.relevo = "true"
    /\ ult.out = <<[to |-> Cliente2, body |-> T_YA_VOY, res |-> "sin_id", message_id |-> None]>>

\* an unresolved error existed and the reply quoted an id no error has: nothing
\* was relayed
C18_SinRecurrirAOtro ==
    /\ Len(ERROR_CONTEXT) = 1
    /\ ~ERROR_CONTEXT[1].resuelto
    /\ DelResponsable(ult)
    /\ ult.p.replied_message_id = Some(0)
    /\ ult.relevo = "false"
    /\ ult.n_relevo = 0

\* the request was not processed as a customer message
NoComoCliente ==
    /\ clientes' = clientes
    /\ chats' = chats
    /\ mensajes' = mensajes
    /\ ULTIMO_CLIENTE_CONTEXT' = ULTIMO_CLIENTE_CONTEXT
    /\ ~ult'.ht

\* C19: a message of the responsable that receive relays through
\* handle_responsable_reply is not also processed as a customer message: no client
\* and no chat is created, nothing is appended to the message log, the
\* last-customer record is unchanged, handle_text is not called, and the relay is
\* the only send of the request.
C19_RelevoYNadaMas ==
    [][(recibidos' = recibidos + 1 /\ ult'.relevo = "true") =>
          (NoComoCliente /\ Len(ult'.out) = 1 /\ ult'.status = 200 /\ sesiones_abiertas' = sesiones_abiertas)]_vars

\* a customer had written before, and the relay left the tables and the
\* last-customer record as they were
C19_SoloRelevo ==
    /\ ult.relevo = "true"
    /\ ~ult.ht
    /\ Len(clientes) = 1
    /\ Len(mensajes) = 2
    /\ Len(ult.out) = 1
    /\ ult.out[1].to = Cliente2
    /\ RESPONSABLE_TEST \in DOMAIN ULTIMO_CLIENTE_CONTEXT
    /\ ULTIMO_CLIENTE_CONTEXT[RESPONSABLE_TEST].ultimo_cliente = Cliente1

\* the text after "#Responder", trimmed
TextoAReenviar(mensaje) == Strip(SubSeq(Strip(mensaje), Len(PREFIJO_RESPONDER) + 1, Len(Strip(mensaje))))

\* the request is a text of the responsable that starts with "#Responder" and has
\* text after it, and a last customer is recorded
EsResponder(u, uc) ==
    /\ DelResponsable(u)
    /\ u.p.tipo \in TIPOS_TEXTO
    /\ StartsWith(Strip(u.p.mensaje), PREFIJO_RESPONDER)
    /\ TextoAReenviar(u.p.mensaje) # << >>
    /\ RESPONSABLE_TEST \in DOMAIN uc

\* C20: when the responsable sends a text that starts with '#Responder' followed
\* by non-empty text and a last customer is recorded, receive sends the text after
\* the prefix, trimmed, to the last customer that wrote to the bot, and the message
\* is not processed as a customer message.
C20_ResponderAlUltimo ==
    [][(recibidos' = recibidos + 1 /\ EsResponder(ult', ULTIMO_CLIENTE_CONTEXT)) =>
          /\ Len(ult'.out) >= 1
          /\ ult'.out[1].to = ULTIMO_CLIENTE_CONTEXT[RESPONSABLE_TEST].ultimo_cliente
          /\ ult'.out[1].body = TextoAReenviar(ult'.p.mensaje)
          /\ NoComoCliente]_vars

\* Cliente1 wrote last, the request of Cliente2 failed and left an unresolved
\* error: '#Responder ok' went to Cliente2, prefix and all, and not to Cliente1
C20_RelevadoConPrefijo ==
    /\ ult.p.mensaje = T_RESPONDER
    /\ ult.relevo = "true"
    /\ RESPONSABLE_TEST \in DOMAIN ULTIMO_CLIENTE_CONTEXT
    /\ ULTIMO_CLIENTE_CONTEXT[RESPONSABLE_TEST].ultimo_cliente = Cliente1
    /\ ult.out = <<[to |-> Cliente2, body |-> T_RESPONDER, res |-> "ok", message_id |-> Some(ultimo_wamid)]>>

\* the same statement for the requests in which handle_responsable_reply found no
\* error to relay to
C20_SinErrorPendiente ==
    [][(recibidos' = recibidos + 1 /\ EsResponder(ult', ULTIMO_CLIENTE_CONTEXT) /\ ult'.relevo = "false" /\ ult'.n_relevo = 0) =>
          /\ Len(ult'.out) >= 1
          /\ ult'.out[1].to = ULTIMO_CLIENTE_CONTEXT[RESPONSABLE_TEST].ultimo_cliente
          /\ ult'.out[1].body = TextoAReenviar(ult'.p.mensaje)
          /\ NoComoCliente]_vars

\* no error was unresolved and 'ok' went to the last customer
C20_ReenviadoAlUltimo ==
    /\ ult.p.mensaje = T_RESPONDER
    /\ ult.relevo = "false"
    /\ ~ult.ht
    /\ ult.out = <<[to |-> Cliente1, body |-> <<"o", "k">>, res |-> "ok", message_id |-> Some(ultimo_wamid)]>>

----------------------------------------------------------------------------
(* Util/politicas_respuestas.py: lateness notices *)

KEYWORDS_DEMORA ==
    {<<"l", "l", "e", "g", "o">>,
     <<"l", "l", "e", "g", "a", "n", "d", "o">>,
     <<"l", "l", "e", "g", "a", "r", "é">>,
     <<"l", "l", "e", "g", "a", "r", "e">>,
     <<"l", "l", "e", "g", "ó">>,
     <<"l", "l", "e", "g", "u", "e">>,
     <<"v", "o", "y", " ", "a", " ", "d", "e", "m", "o", "r", "a", "r">>,
     <<"d", "e", "m", "o", "r", "o">>,
     <<"d", "e", "m", "o", "r", "a", "r">>,
     <<"d", "e", "m", "o", "r", "a", "n", "d", "o">>,
     <<"e", "s", "t", "o", "y", " ", "y", "e", "n", "d", "o">>,
     <<"y", "e", "n", "d", "o">>,
     <<"v", "i", "n", "i", "e", "n", "d", "o">>,
     <<"e", "s", "t", "o", "y", " ", "v", "i", "n", "i", "e", "n", "d", "o">>,
     <<"t", "e", "n", "g", "o", " ", "t", "u", "r", "n", "o">>,
     <<"m", "i", " ", "t", "u", "r", "n", "o">>,
     <<"t", "u", "r", "n", "o", " ", "a", " ", "l", "a", "s">>,
     <<"t", "u", "r", "n", "o", " ", "e", "s">>,
     <<"a", "t", "r", "a", "s", "a", "d", "o">>,
     <<"a", "t", "r", "a", "s", "é">>,
     <<"a", "t", "r", "a", "s", "e">>,
     <<"m", "e", " ", "a", "t", "r", "a", "s", "é">>,
     <<"m", "e", " ", "a", "t", "r", "a", "s", "e">>,
     <<"l", "l", "e", "g", "a", "n", "d", "o", " ", "t", "a", "r", "d", "e">>,
     <<"l", "l", "e", "g", "a", "n", "d", "o", " ", "u", "n", "o", "s", " ", "m", "i", "n", "u", "t", "o", "s">>,
     <<"l", "l", "e", "g", "a", "n", "d", "o", " ", "1", "0">>,
     <<"l", "l", "e", "g", "a", "n", "d", "o", " ", "1", "5">>,
     <<"l", "l", "e", "g", "a", "n", "d", "o", " ", "2", "0">>,
     <<"l", "l", "e", "g", "a", "n", "d", "o", " ", "3", "0">>,
     <<"l", "l", "e", "g", "a", "n", "d", "o", " ", "4", "0">>,
     <<"r", "e", "t", "r", "a", "s", "o">>,
     <<"c", "o", "n", " ", "r", "e", "t", "r", "a", "s", "o">>,
     <<"m", "e", "d", "i", "a", " ", "h", "o", "r", "a", " ", "d", "e", " ", "r", "e", "t", "r", "a", "s", "o">>,
     <<"m", "e", "d", "i", "a", " ", "h", "o", "r", "a", " ", "r", "e", "t", "r", "a", "s", "o">>,
     <<"c", "o", "n", " ", "d", "e", "m", "o", "r", "a">>,
     <<"t", "e", "n", "g", "o", " ", "d", "e", "m", "o", "r", "a">>,
     <<"v", "o", "y", " ", "c", "o", "n", " ", "d", "e", "m", "o", "r", "a">>,
     <<"l", "l", "e", "g", "a", "n", "d", "o", " ", "c", "o", "n", " ", "d", "e", "m", "o", "r", "a">>}

\* detectar_aviso_demora(texto)
detectar_aviso_demora(texto) ==
    IF texto = << >> THEN FALSE ELSE ContainsAny(Strip(Lower(texto)), KEYWORDS_DEMORA)

DIGITOS == <<"0", "1", "2", "3", "4", "5", "6", "7", "8", "9">>

\* \d
EsDigito(c) == c \in {"0", "1", "2", "3", "4", "5", "6", "7", "8", "9"}

\* \w
LETRAS == {MINUSCULAS[i] : i \in 1..Len(MINUSCULAS)} \cup {MAYUSCULAS[i] : i \in 1..Len(MAYUSCULAS)} \cup {"á", "é", "í", "ó", "ú", "ñ"}

EsPalabra(c) == EsDigito(c) \/ c = "_" \/ c \in LETRAS

ValorDigito(c) == (CHOOSE i \in 1..Len(DIGITOS) : DIGITOS[i] = c) - 1

\* s is what int(s) accepts: a non-empty run of digits
EsNumero(s) == s # << >> /\ \A i \in 1..Len(s) : EsDigito(s[i])

\* int(s)
RECURSIVE Entero(_)
Entero(s) == IF s = << >> THEN 0 ELSE Entero(SubSeq(s, 1, Len(s) - 1)) * 10 + ValorDigito(s[Len(s)])

\* f"{n:02d}"
RECURSIVE Decimal(_)
Decimal(n) == IF n < 10 THEN <<DIGITOS[n + 1]>> ELSE Decimal(n \div 10) \o <<DIGITOS[(n % 10) + 1]>>

DosDigitos(n) == IF n < 10 THEN <<"0">> \o Decimal(n) ELSE Decimal(n)

\* \b before position i of s (i = Len(s) + 1 is the end of s)
Borde(s, i) == (i > 1 /\ EsPalabra(s[i - 1])) # (i <= Len(s) /\ EsPalabra(s[i]))

\* \d{n} at position i
Digitos(s, i, n) == i + n - 1 <= Len(s) /\ \A k \in i..(i + n - 1) : EsDigito(s[k])

\* the ways \b(\d{1,2}):?(\d{2})?\b can match, in the order the matcher tries
\* them: <<digits of the hour, colon taken, digits of the minutes>>
ALTERNATIVAS_HORA == <<<<2, 1, 2>>, <<2, 1, 0>>, <<2, 0, 2>>, <<2, 0, 0>>, <<1, 1, 2>>, <<1, 1, 0>>, <<1, 0, 2>>, <<1, 0, 0>>>>

\* the ways \b(\d{1,2}):(\d{2})\b can match
ALTERNATIVAS_HHMM == <<<<2, 1, 2>>, <<1, 1, 2>>>>

CoincideHora(s, i, a) ==
    /\ Digitos(s, i, a[1])
    /\ Borde(s, i)
    /\ a[2] = 1 => (i + a[1] <= Len(s) /\ s[i + a[1]] = ":")
    /\ Digitos(s, i + a[1] + a[2], a[3])
    /\ Borde(s, i + a[1] + a[2] + a[3])

CoincideEn(s, i, alts) == \E k \in 1..Len(alts) : CoincideHora(s, i, alts[k])

\* the alternative the matcher takes at position i
Alternativa(s, i, alts) == alts[CHOOSE k \in 1..Len(alts) : CoincideHora(s, i, alts[k]) /\ \A j \in 1..(k - 1) : ~CoincideHora(s, i, alts[j])]

\* the groups of the match at position i
Grupos(s, i, a) == <<SubSeq(s, i, i + a[1] - 1), SubSeq(s, i + a[1] + a[2], i + a[1] + a[2] + a[3] - 1)>>

\* re.findall(patron, s), from position i on
RECURSIVE FindAll(_, _, _)
FindAll(s, i, alts) ==
    IF i > Len(s) THEN << >>
    ELSE IF CoincideEn(s, i, alts)
         THEN <<Grupos(s, i, Alternativa(s, i, alts))>>
              \o FindAll(s, i + Alternativa(s, i, alts)[1] + Alternativa(s, i, alts)[2] + Alternativa(s, i, alts)[3], alts)
         ELSE FindAll(s, i + 1, alts)

\* the position after the run of digits (of blanks) that starts at position i
RECURSIVE FinDeDigitos(_, _)
FinDeDigitos(s, i) == IF i <= Len(s) /\ EsDigito(s[i]) THEN FinDeDigitos(s, i + 1) ELSE i

RECURSIVE FinDeEspacios(_, _)
FinDeEspacios(s, i) == IF i <= Len(s) /\ s[i] = " " THEN FinDeEspacios(s, i + 1) ELSE i

EmpiezaEn(s, i, pre) == i + Len(pre) - 1 <= Len(s) /\ SubSeq(s, i, i + Len(pre) - 1) = pre

\* (\d+)\s*(?:min|minutos|minuto) matches at position i
MinutosEn(s, i) == EsDigito(s[i]) /\ EmpiezaEn(s, FinDeEspacios(s, FinDeDigitos(s, i)), <<"m", "i", "n">>)

\* re.search(r'(\d+)\s*(?:min|minutos|minuto)', s): group 1 of the first match
BuscarMinutos(s) ==
    IF \E i \in 1..Len(s) : MinutosEn(s, i)
    THEN LET i == CHOOSE i \in 1..Len(s) : MinutosEn(s, i) /\ \A j \in 1..(i - 1) : ~MinutosEn(s, j)
         IN  Some(Entero(SubSeq(s, i, FinDeDigitos(s, i) - 1)))
    ELSE None

\* pre\s*(\d+) matches at position i
NumeroTrasEn(s, i, pre) == EmpiezaEn(s, i, pre) /\ FinDeDigitos(s, FinDeEspacios(s, i + Len(pre))) > FinDeEspacios(s, i + Len(pre))

NumeroTrasAlgunoEn(s, i, pres) == \E k \in 1..Len(pres) : NumeroTrasEn(s, i, pres[k])

\* re.search of (?:pres[1]|pres[2]|...)\s*(\d+): group 1 of the first match
BuscarNumeroTras(s, pres) ==
    IF \E i \in 1..Len(s) : NumeroTrasAlgunoEn(s, i, pres)
    THEN LET i == CHOOSE i \in 1..Len(s) : NumeroTrasAlgunoEn(s, i, pres) /\ \A j \in 1..(i - 1) : ~NumeroTrasAlgunoEn(s, j, pres)
             p == pres[CHOOSE k \in 1..Len(pres) : NumeroTrasEn(s, i, pres[k]) /\ \A j \in 1..(k - 1) : ~NumeroTrasEn(s, i, pres[j])]
             d == FinDeEspacios(s, i + Len(p))
         IN  Some(Entero(SubSeq(s, d, FinDeDigitos(s, d) - 1)))
    ELSE None

\* hora.split(":")
RECURSIVE Split(_, _)
Split(s, sep) ==
    IF \E i \in 1..Len(s) : s[i] = sep
    THEN LET i == CHOOSE i \in 1..Len(s) : s[i] = sep /\ \A j \in 1..(i - 1) : s[j] # sep
         IN  <<SubSeq(s, 1, i - 1)>> \o Split(SubSeq(s, i + 1, Len(s)), sep)
    ELSE <<s>>

\* int(parts[0]) * 60 + int(parts[1]) of hora.split(":"); None when it raises
\* (hora is None, or has no colon, or a part is not a number)
MinutosDelDia(hora) ==
    IF hora = None THEN None
    ELSE IF Len(Split(hora[1], ":")) < 2 THEN None
    ELSE IF ~EsNumero(Split(hora[1], ":")[1]) \/ ~EsNumero(Split(hora[1], ":")[2]) THEN None
    ELSE Some(Entero(Split(hora[1], ":")[1]) * 60 + Entero(Split(hora[1], ":")[2]))

\* llegada_minutos - turno_minutos when both hours parse and it is positive
DemoraPositiva(hora_turno, hora_llegada) ==
    IF MinutosDelDia(hora_turno) = None \/ MinutosDelDia(hora_llegada) = None THEN None
    ELSE IF MinutosDelDia(hora_llegada)[1] - MinutosDelDia(hora_turno)[1] > 0
         THEN Some(MinutosDelDia(hora_llegada)[1] - MinutosDelDia(hora_turno)[1])
         ELSE None

\* f"{int(h):02d}:{mm}"
HoraHHMM(grupos) == DosDigitos(Entero(grupos[1])) \o <<":">> \o grupos[2]

\* truth value of a value of datos: None and "" are false for an hour, None and 0
\* for the minutes
HayHora(o) == o # None /\ o[1] # << >>

HayMinutos(o) == o # None /\ o[1] # 0

DatosDemora(hora_turno, hora_llegada, minutos_demora) ==
    [k \in {"hora_turno", "hora_llegada", "minutos_demora"} |->
        IF k = "hora_turno" THEN hora_turno ELSE IF k = "hora_llegada" THEN hora_llegada ELSE minutos_demora]

\* datos with minutos_demora computed from the two hours when they are there and
\* minutos_demora is false
ConMinutosCalculados(datos) ==
    IF HayHora(datos["hora_turno"]) /\ HayHora(datos["hora_llegada"]) /\ ~HayMinutos(datos["minutos_demora"])
       /\ DemoraPositiva(datos["hora_turno"], datos["hora_llegada"]) # None
    THEN DictPut(datos, "minutos_demora", DemoraPositiva(datos["hora_turno"], datos["hora_llegada"]))
    ELSE datos

\* the hours of _extraer_datos_fallback: two hours are the booked time and the
\* arrival, one hour is the booked time only when the text says turno or tengo
HorasFallback(texto, horas) ==
    IF Len(horas) >= 2 THEN DatosDemora(Some(HoraHHMM(horas[1])), Some(HoraHHMM(horas[2])), None)
    ELSE IF Len(horas) = 1
         THEN IF Contains(Lower(texto), <<"t", "u", "r", "n", "o">>) \/ Contains(Lower(texto), <<"t", "e", "n", "g", "o">>)
              THEN DatosDemora(Some(HoraHHMM(horas[1])), None, None)
              ELSE DatosDemora(None, Some(HoraHHMM(horas[1])), None)
    ELSE DatosDemora(None, None, None)

\* return datos if any(datos.values()) else None
SiHayAlguno(datos) ==
    IF HayHora(datos["hora_turno"]) \/ HayHora(datos["hora_llegada"]) \/ HayMinutos(datos["minutos_demora"])
    THEN Some(datos) ELSE None

\* _extraer_datos_fallback(texto)
extraer_datos_fallback(texto) ==
    SiHayAlguno(ConMinutosCalculados(
        DictPut(HorasFallback(texto, FindAll(texto, 1, ALTERNATIVAS_HHMM)), "minutos_demora", BuscarMinutos(Lower(texto)))))

\* the minutes that normalizar_datos_demora reads in the text itself: "15 min",
\* "demoro 15", "llegando 15"
MinutosDelTexto(s) ==
    IF BuscarMinutos(s) # None THEN BuscarMinutos(s)
    ELSE IF BuscarNumeroTras(s, <<<<"d", "e", "m", "o", "r", "o">>, <<"d", "e", "m", "o", "r", "a", "r">>, <<"d", "e", "m", "o", "r", "a", "n", "d", "o">>>>) # None
         THEN BuscarNumeroTras(s, <<<<"d", "e", "m", "o", "r", "o">>, <<"d", "e", "m", "o", "r", "a", "r">>, <<"d", "e", "m", "o", "r", "a", "n", "d", "o">>>>)
    ELSE BuscarNumeroTras(s, <<<<"l", "l", "e", "g", "a", "n", "d", "o">>>>)

\* the part of normalizar_datos_demora after json.loads: minutos_demora from the
\* two hours, else from the text
DatosDeJson(texto, datos) ==
    IF DictGet(datos, "minutos_demora", None) # None THEN datos
    ELSE IF HayHora(DictGet(datos, "hora_turno", None)) /\ HayHora(DictGet(datos, "hora_llegada", None))
            /\ DemoraPositiva(datos["hora_turno"], datos["hora_llegada"]) # None
         THEN DictPut(datos, "minutos_demora", DemoraPositiva(datos["hora_turno"], datos["hora_llegada"]))
    ELSE IF MinutosDelTexto(Lower(texto)) # None THEN DictPut(datos, "minutos_demora", MinutosDelTexto(Lower(texto)))
    ELSE datos

\* normalizar_datos_demora(texto): g is what the extraction model does: it answers
\* a JSON object (tipo "json", datos), or the call or the reading of its answer
\* raises (tipo "raise"), which ends in the fallback
normalizar_datos_demora(texto, g) ==
    IF texto = << >> THEN None
    ELSE IF g.tipo = "json" THEN Some(DatosDeJson(texto, g.datos))
    ELSE extraer_datos_fallback(texto)

----------------------------------------------------------------------------
(* Util/message_handlers.py: handle_demora *)

MSG_PREGUNTA_HORA == <<"Bro, ¿a qué hora tenías reservado el ", "turno", "? Así calculo la demora y te digo qué hacer.">>

ESPERA_HORA_TURNO == "demora_hora_turno"

\* Util.estado.set_waiting_for
set_waiting_for(est, numero, func_name, context_data) ==
    [est EXCEPT ![numero] = [waiting_for |-> Some(func_name), context_data |-> context_data]]

\* steps 3 and 4: the policy for datos and its fixed message
handle_demora_politica(est, datos, link_agenda) ==
    [r |-> obtener_mensaje_segun_estado(aplicar_politica("aviso_demora", datos).estado, DictPut(EmptyDict, "link_agenda", link_agenda)),
     est |-> est, datos |-> datos]

\* datos once the first hour of the text is taken as hora_turno
ConHoraDeTurno(datos, hora_turno, hora_llegada) ==
    IF DemoraPositiva(Some(hora_turno), hora_llegada) # None
    THEN DictPut(DictPut(DictPut(datos, "hora_turno", Some(hora_turno)), "hora_llegada", hora_llegada), "minutos_demora", DemoraPositiva(Some(hora_turno), hora_llegada))
    ELSE DictPut(DictPut(datos, "hora_turno", Some(hora_turno)), "hora_llegada", hora_llegada)

\* hora_turno of the first match: its minutes when it has them, else :00
HoraDeTurno(grupos) == IF Len(grupos[2]) = 2 THEN HoraHHMM(grupos) ELSE HoraHHMM(<<grupos[1], <<"0", "0">>>>)

\* the branch "waiting == demora_hora_turno"; horas_encontradas is what
\* re.findall finds in the text
handle_demora_horas(est, datos, horas_encontradas, link_agenda, numero) ==
    IF get_waiting_for(est, numero) = Some(ESPERA_HORA_TURNO) /\ horas_encontradas # << >>
    THEN handle_demora_politica(clear_waiting_for(est, numero),
                                ConHoraDeTurno(datos, HoraDeTurno(horas_encontradas[1]),
                                               DictGet(est[numero].context_data, "hora_llegada", None)),
                                link_agenda)
    ELSE handle_demora_politica(est, datos, link_agenda)

handle_demora_espera(est, datos, texto, link_agenda, numero) ==
    handle_demora_horas(est, datos, FindAll(texto, 1, ALTERNATIVAS_HORA), link_agenda, numero)

\* handle_demora from the special case on; chat_instance is None or Some(numero)
handle_demora_datos(est, datos, texto, link_agenda, chat_instance) ==
    IF HayHora(DictGet(datos, "hora_llegada", None)) /\ ~HayHora(DictGet(datos, "hora_turno", None))
       /\ ~HayMinutos(DictGet(datos, "minutos_demora", None)) /\ chat_instance # None
    THEN [r |-> Some(MSG_PREGUNTA_HORA),
          est |-> set_waiting_for(est, chat_instance[1], ESPERA_HORA_TURNO,
                                  DictPut(DictPut(EmptyDict, "hora_llegada", datos["hora_llegada"]), "texto_original", Some(texto))),
          datos |-> datos]
    ELSE IF chat_instance # None THEN handle_demora_espera(est, datos, texto, link_agenda, chat_instance[1])
    ELSE handle_demora_politica(est, datos, link_agenda)

\* handle_demora after the extraction: datos is None, or Some of a dict
handle_demora_extraidos(est, datos, texto, link_agenda, chat_instance) ==
    IF datos = None \/ datos = Some(EmptyDict)
    THEN [r |-> Some(MSG_DEMORA_LEVE), est |-> est, datos |-> EmptyDict]
    ELSE handle_demora_datos(est, datos[1], texto, link_agenda, chat_instance)

\* handle_demora(texto, link_agenda, chat_instance): the reply (None when texto
\* is not a lateness notice), the session states after the call and the datos
\* the policy was applied to
handle_demora(est, texto, link_agenda, chat_instance, g) ==
    IF ~detectar_aviso_demora(texto) THEN [r |-> None, est |-> est, datos |-> EmptyDict]
    ELSE handle_demora_extraidos(est, normalizar_datos_demora(texto, g), texto, link_agenda, chat_instance)

----------------------------------------------------------------------------
(* handle_demora called on the messages of one customer *)

T_LLEGO_1530 == <<"l", "l", "e", "g", "o", " ", "1", "5", ":", "3", "0">>

T_LLEGO_1512 == <<"L", "l", "e", "g", "o", " ", "1", "5", ":", "1", "2">>

T_1500 == <<"1", "5", ":", "0", "0">>

T_A_LAS_15 == <<"a", " ", "l", "a", "s", " ", "1", "5">>

T_MI_TURNO_1500 == <<"m", "i", " ", "t", "u", "r", "n", "o", " ", "1", "5", ":", "0", "0">>

T_TURNO_ES_15 == <<"t", "u", "r", "n", "o", " ", "e", "s", " ", "1", "5">>

T_DEMORO_10_MIN == <<"d", "e", "m", "o", "r", "o", " ", "1", "0", " ", "m", "i", "n">>

T_LLEGO_TARDE == <<"l", "l", "e", "g", "o", " ", "t", "a", "r", "d", "e">>

HORA_1530 == <<"1", "5", ":", "3", "0">>

HORA_1500 == <<"1", "5", ":", "0", "0">>

\* what the extraction model answers
ExtraccionesGemini ==
    {[tipo |-> "raise", datos |-> EmptyDict],
     [tipo |-> "json", datos |-> EmptyDict],
     [tipo |-> "json", datos |-> DatosDemora(None, Some(HORA_1530), None)],
     [tipo |-> "json", datos |-> DatosDemora(Some(HORA_1500), None, None)],
     [tipo |-> "json", datos |-> DatosDemora(Some(HORA_1500), Some(HORA_1530), None)]}

TextosDemora == {T_HOLA, T_LLEGO_TARDE, T_LLEGO_1530, T_LLEGO_1512, T_DEMORO_10_MIN}

\* the answers to the question about the booked time: each one has an hour in it
TextosConHora == {T_1500, T_A_LAS_15, T_MI_TURNO_1500, T_TURNO_ES_15, T_LLEGO_1530}

varsDemora == <<NUM_DESARROLLADOR, NUM_RESPONSABLE, ERROR_CONTEXT, ULTIMO_CLIENTE_CONTEXT, clientes, chats, mensajes, sesiones_abiertas, reloj, ultimo_wamid, recibidos, fallas, ult, pol>>

\* the call and what it returned: antes and hora_llegada are the waiting-for flag
\* and the stored arrival time of the customer before the call
LlamadaDeDemora(h, texto, link_agenda, chat_instance, g) ==
    [fn |-> "handle_demora", texto |-> texto, g |-> g, chat_instance |-> chat_instance, link_agenda |-> link_agenda,
     antes |-> get_waiting_for(ESTADOS, Cliente1),
     hora_llegada |-> DictGet(ESTADOS[Cliente1].context_data, "hora_llegada", None),
     r |-> h.r, datos |-> h.datos]

\* the customer writes, with or without a lateness notice
AvisarDemora ==
    \E texto \in TextosDemora, chat_instance \in {None, Some(Cliente1)}, g \in ExtraccionesGemini :
        \E h \in {handle_demora(ESTADOS, texto, LINK_RESERVA, chat_instance, g)} :
            /\ ESTADOS' = h.est
            /\ consulta' = LlamadaDeDemora(h, texto, LINK_RESERVA, chat_instance, g)
            /\ UNCHANGED varsDemora

\* the customer was asked for the booked time and answers with an hour
ResponderConHora ==
    \E texto \in TextosConHora, g \in ExtraccionesGemini :
        /\ get_waiting_for(ESTADOS, Cliente1) = Some(ESPERA_HORA_TURNO)
        /\ \E h \in {handle_demora(ESTADOS, texto, LINK_RESERVA, Some(Cliente1), g)} :
            /\ ESTADOS' = h.est
            /\ consulta' = LlamadaDeDemora(h, texto, LINK_RESERVA, Some(Cliente1), g)
            /\ UNCHANGED varsDemora

NextDemora == AvisarDemora \/ ResponderConHora

SpecDemora == InitFlujo /\ [][NextDemora]_vars

\* a customer who was asked for the booked time does answer with an hour
SpecDemoraJusta == SpecDemora /\ WF_vars(ResponderConHora)

----------------------------------------------------------------------------

\* C21: every DB session opened by receive is closed before receive returns, on
\* the normal path and on every exception path: no session is left open after a
\* request.
C21_SesionCerrada == sesiones_abiertas = 0

\* the close of the finally clause raised, a send of handle_critical_exception
\* raised too, and the second close was never reached: the session is left open
C21_CierreOmitido ==
    /\ ult.db_session
    /\ ult.cierres = <<"raise">>
    /\ ult.critica = "excepcion"
    /\ ult.status = 500
    /\ sesiones_abiertas = 1

\* the same statement for the requests in which the close of the finally clause
\* does not raise, and for the requests that receive answers with 200
C21_CerradaSiElCierreFunciona ==
    [][recibidos' = recibidos + 1 =>
          /\ ~ult'.db_session => (sesiones_abiertas' = sesiones_abiertas /\ ult'.cierres = << >>)
          /\ (ult'.db_session /\ ult'.cierres # << >> /\ ult'.cierres[1] = "ok") => sesiones_abiertas' = sesiones_abiertas
          /\ ult'.status = 200 => sesiones_abiertas' = sesiones_abiertas
          /\ ult'.db_session => ult'.cierres # << >>]_vars

\* an exception left the inner try, the finally clause closed the session and the
\* escalation ran
C21_CerradaTrasExcepcion ==
    /\ ult.db_session
    /\ ult.critica # "no"
    /\ ult.cierres[1] = "ok"
    /\ sesiones_abiertas = 0

\* C22: once handle_demora has asked the customer for the booked time (waiting-for
\* is "demora_hora_turno", the arrival time is stored) and the customer answers
\* with an hour, the answer is taken as hora_turno and the waiting-for flag is
\* cleared: a customer who is waiting and keeps answering with an hour is
\* eventually not waiting any more.
C22_EsperaTerminada ==
    (get_waiting_for(ESTADOS, Cliente1) = Some(ESPERA_HORA_TURNO)) ~> (get_waiting_for(ESTADOS, Cliente1) = None)

\* the customer was asked for the booked time and answered "15:00": handle_demora
\* returned None at its first check and the customer is still waiting
C22_HoraSinPalabraClave ==
    /\ consulta.fn = "handle_demora"
    /\ consulta.antes = Some(ESPERA_HORA_TURNO)
    /\ consulta.hora_llegada = Some(HORA_1530)
    /\ consulta.texto = T_1500
    /\ consulta.r = None
    /\ get_waiting_for(ESTADOS, Cliente1) = Some(ESPERA_HORA_TURNO)

\* the extraction found an arrival time and nothing else: handle_demora asks again
SoloHoraDeLlegada(datos) ==
    /\ datos # None
    /\ datos # Some(EmptyDict)
    /\ HayHora(DictGet(datos[1], "hora_llegada", None))
    /\ ~HayHora(DictGet(datos[1], "hora_turno", None))
    /\ ~HayMinutos(DictGet(datos[1], "minutos_demora", None))

\* the answers that reach the branch of the waiting customer: a lateness keyword
\* in the text, something extracted, and not an arrival time alone
LlegaALaEspera(c) ==
    /\ c.fn = "handle_demora"
    /\ c.antes = Some(ESPERA_HORA_TURNO)
    /\ c.chat_instance = Some(Cliente1)
    /\ detectar_aviso_demora(c.texto)
    /\ normalizar_datos_demora(c.texto, c.g) \notin {None, Some(EmptyDict)}
    /\ ~SoloHoraDeLlegada(normalizar_datos_demora(c.texto, c.g))
    /\ FindAll(c.texto, 1, ALTERNATIVAS_HORA) # << >>

\* for those answers the first hour of the text is hora_turno, the delay is the
\* stored arrival time minus it when that is positive, the flag is cleared and
\* the reply is the policy message for the delay; every other answer of a waiting
\* customer leaves the flag set
C22_HoraDeTurnoTomada ==
    [][(consulta'.fn = "handle_demora" /\ consulta'.antes = Some(ESPERA_HORA_TURNO) /\ consulta'.chat_instance = Some(Cliente1)) =>
          IF LlegaALaEspera(consulta')
          THEN /\ get_waiting_for(ESTADOS', Cliente1) = None
               /\ consulta'.datos["hora_turno"] = Some(HoraDeTurno(FindAll(consulta'.texto, 1, ALTERNATIVAS_HORA)[1]))
               /\ consulta'.datos["hora_llegada"] = consulta'.hora_llegada
               /\ DemoraPositiva(consulta'.datos["hora_turno"], consulta'.hora_llegada) # None
                     => consulta'.datos["minutos_demora"] = DemoraPositiva(consulta'.datos["hora_turno"], consulta'.hora_llegada)
               /\ consulta'.r = obtener_mensaje_segun_estado(evaluar_politica_demora(consulta'.datos["minutos_demora"]),
                                                             DictPut(EmptyDict, "link_agenda", consulta'.link_agenda))
          ELSE get_waiting_for(ESTADOS', Cliente1) = Some(ESPERA_HORA_TURNO)]_vars

\* the customer who arrives at 15:30 answers "mi turno 15:00": 30 minutes, the
\* flag is cleared and the reply is the one of a lost appointment, with the link
C22_DemoraCalculada ==
    /\ consulta.fn = "handle_demora"
    /\ consulta.antes = Some(ESPERA_HORA_TURNO)
    /\ consulta.hora_llegada = Some(HORA_1530)
    /\ consulta.texto = T_MI_TURNO_1500
    /\ consulta.datos["hora_turno"] = Some(HORA_1500)
    /\ consulta.datos["minutos_demora"] = Some(30)
    /\ consulta.r = Some(MSG_TURNO_PERDIDO \o <<"\n\n">> \o LINK_RESERVA)
    /\ get_waiting_for(ESTADOS, Cliente1) = None

\* a send of handle_text to the customer from the greeting-flow, link, handoff,
\* predefined-answer, generation or fallback branch: every send to the customer
\* but the replies to the commands and the messages of the escalation
EsRespuestaDeRama(x, u) ==
    /\ x.op = "enviar"
    /\ x.a = u.p.numero
    /\ x.body \notin {MSG_CANCELADA, MSG_AYUDA, MSG_REPARTIDOR, MSG_ESPERA}
    /\ x.body # << >>
    /\ x.body[1] \notin {"*Error técnico en bot*\n\nCliente: ", "Error atendiendo a un cliente\n\nCliente: "}

\* a bot row, or a send of handle_text to the customer
EsDeHandleText(x, u) ==
    \/ x.op = "registrar" /\ ~x.es_cliente
    \/ x.op = "enviar" /\ x.a = u.p.numero /\ x.body # MSG_ESPERA
          /\ x.body # << >> /\ x.body[1] \notin {"*Error técnico en bot*\n\nCliente: ", "Error atendiendo a un cliente\n\nCliente: "}

FilaDelBot(u, respuesta) == [op |-> "registrar", a |-> IdChat(u.p.numero), body |-> respuesta, es_cliente |-> FALSE]

FilaDelCliente(u) == [op |-> "registrar", a |-> IdChat(u.p.numero), body |-> u.p.mensaje, es_cliente |-> TRUE]

\* C23: in a request in which handle_text ran, every reply sent to the customer
\* from the greeting-flow, link, handoff, predefined-answer, generation and
\* fallback branches comes right after the insert of a bot row (es_cliente = False)
\* of the customer's chat with the same text; and when the message is a text or an
\* interactive one, the customer row with the inbound text is written before any
\* bot row and before any send of handle_text.  (The first n_relevo entries of
\* registro are the sends of the relay of a responsable, made before the
\* message is processed.)
C23_RegistradoAntesDeEnviar ==
    (ult.p.clase = "mensaje" /\ ult.ht) =>
        /\ \A i \in (ult.n_relevo + 1)..Len(ult.registro) :
              EsRespuestaDeRama(ult.registro[i], ult) => (i > 1 /\ ult.registro[i - 1] = FilaDelBot(ult, ult.registro[i].body))
        /\ ult.p.tipo \in TIPOS_TEXTO =>
              \E j \in 1..Len(ult.registro) :
                  /\ ult.registro[j] = FilaDelCliente(ult)
                  /\ \A i \in (ult.n_relevo + 1)..j : ~EsDeHandleText(ult.registro[i], ult)

\* the customer pressed a button that asks for a human: customer row, bot row
\* with the handoff text, then the send of that text
C23_DerivacionRegistrada ==
    /\ ult.ht
    /\ ult.p.tipo = "interactive"
    /\ ult.registro = <<FilaDelCliente(ult), FilaDelBot(ult, MSG_DERIVACION),
                         [op |-> "enviar", a |-> Cliente1, body |-> MSG_DERIVACION]>>
    /\ Len(mensajes) >= 2
    /\ mensajes[Len(mensajes)] = [id_chat |-> IdChat(Cliente1), contenido |-> MSG_DERIVACION, es_cliente |-> FALSE]

\* the generator raised: the fallback text is logged and sent after the notice
C23_FallbackRegistrado ==
    /\ ult.ht
    /\ ult.gen_raise
    /\ Len(ult.registro) >= 3
    /\ ult.registro[Len(ult.registro)] = [op |-> "enviar", a |-> Cliente1, body |-> MSG_PROBLEMAS]
    /\ ult.registro[Len(ult.registro) - 1] = FilaDelBot(ult, MSG_PROBLEMAS)

\* the insert of the customer row raised: handle_text did not run
C23_SinFilaNoHayRespuesta ==
    (ult.p.clase = "mensaje" /\ ult.p.tipo \in TIPOS_TEXTO /\ ~\E j \in 1..Len(ult.registro) : ult.registro[j] = FilaDelCliente(ult)) => ~ult.ht

====
